---------------------------- MODULE Spec2Model ----------------------------
(***************************************************************************)
(* Model of the view-state synchronisation of maps.geolonia.com            *)
(* (src/src/App.tsx): the Style Resolver (styleIdToUrl), the Hash Codec    *)
(* (parseHash / updateHash over URLSearchParams), the persisted view state *)
(* (getCurrentSavedState / setSavedState over localStorage) and the View   *)
(* Controller (mount, onLoad, moveend, style / language change, the hash   *)
(* sync effect, the stage toggle).                                         *)
(*                                                                         *)
(* JavaScript strings are TLA+ strings; a character is a string of length  *)
(* one.  JavaScript values that may be of several types are tagged records *)
(* (JsStr, JsNum, JsNull, JsUndef).  Numbers are fixed-point decimals: the *)
(* integer n stands for n / Unit.                                          *)
(***************************************************************************)
EXTENDS Integers, Sequences, FiniteSets, TLC

VARIABLES
    call,            \* the call a pure-function specification is making
    ret,             \* its result
    fragment,        \* the URL fragment, without the leading '#'
    geolstate,       \* the localStorage item 'geolstate'
    stageOverride,   \* the localStorage item '_geoloniaStageOverride'
    storageMode,     \* "ok", "quota" (setItem throws) or "unavailable" (every access throws)
    phase,           \* "unmounted", "mounted", "crashed" (a render threw) or "reloading"
    style,           \* useState: the selected style id
    language,        \* useState: the selected language
    zLatLngString,   \* useState: the position string of the last moveend
    stage,           \* useMemo: the embed stage
    currentStyleRef, \* useRef: the style URL recorded as loaded
    effectPending,   \* the sync effect is scheduled and has not run
    mapRef,          \* mapRef.current is set (onLoad has run)
    mapStyle,        \* the style URL most recently handed to the map
    styleLoaded,     \* what map.isStyleLoaded() returns
    camera,          \* the map's centre and zoom
    mountEnv,        \* history: the fragment and the item 'geolstate' the page was mounted with
    picked,          \* history: the user has picked a style / a language since the mount
    lastSetStyle,    \* history: the circumstances of the last map.setStyle call
    submits,         \* history: the submissions of the search form, in order
    requests,        \* the HTTP requests of handleSearch, in the order they were issued
    mapSource,       \* the map's source 'search-results'
    mapLayers,       \* the ids of the map's layers over that source, in the order they were added
    viewport,        \* the bounds and options of the last map.fitBounds call
    mapCalls,        \* history: the calls handleSearch made on the map, in order
    clicks,          \* the map clicks, in order, each with its Overpass request
    popups,          \* the popups added to the map, in order
    errorLog,        \* the console.error calls of the click handler, in order
    raised           \* history: what ended in an uncaught exception since the page was opened

harnessVars == <<call, ret>>
envVars == <<fragment, geolstate, stageOverride, storageMode>>
appVars == <<phase, style, language, zLatLngString, stage, currentStyleRef, effectPending>>
mapVars == <<mapRef, mapStyle, styleLoaded, camera>>
histVars == <<mountEnv, picked, lastSetStyle>>
searchVars == <<submits, requests, mapSource, mapLayers, viewport, mapCalls>>
clickVars == <<clicks, popups, errorLog>>
ctlVars == <<stageOverride, phase, style, language, zLatLngString, stage, currentStyleRef, effectPending,
             mapRef, mapStyle, styleLoaded, camera, mountEnv, picked, lastSetStyle,
          submits, requests, mapSource, mapLayers, viewport, mapCalls,
          clicks, popups, errorLog>>
vars == <<call, ret, fragment, geolstate, stageOverride, storageMode,
          phase, style, language, zLatLngString, stage, currentStyleRef, effectPending,
          mapRef, mapStyle, styleLoaded, camera, mountEnv, picked, lastSetStyle,
          submits, requests, mapSource, mapLayers, viewport, mapCalls,
          clicks, popups, errorLog, raised>>

(***************************************************************************)
(* Strings                                                                 *)
(***************************************************************************)
CharAt(s, i) == SubSeq(s, i, i)

\* String.prototype.startsWith
StartsWith(s, p) == Len(s) >= Len(p) /\ SubSeq(s, 1, Len(p)) = p

\* String.prototype.indexOf for a one-character needle, 1-based; 0 when absent
IndexOf(s, c) ==
    LET occ == { i \in 1..Len(s) : CharAt(s, i) = c }
    IN  IF occ = {} THEN 0 ELSE CHOOSE i \in occ : \A j \in occ : i <= j

\* String.prototype.split(c) for a one-character separator
RECURSIVE Split(_, _)
Split(s, c) ==
    LET i == IndexOf(s, c)
    IN  IF i = 0 THEN <<s>>
        ELSE <<SubSeq(s, 1, i - 1)>> \o Split(SubSeq(s, i + 1, Len(s)), c)

Lower == { "a", "b", "c", "d", "e", "f", "g", "h", "i", "j", "k", "l", "m",
           "n", "o", "p", "q", "r", "s", "t", "u", "v", "w", "x", "y", "z" }
Upper == { "A", "B", "C", "D", "E", "F", "G", "H", "I", "J", "K", "L", "M",
           "N", "O", "P", "Q", "R", "S", "T", "U", "V", "W", "X", "Y", "Z" }
Digit == { "0", "1", "2", "3", "4", "5", "6", "7", "8", "9" }
Alnum == Lower \cup Upper \cup Digit

\* String.prototype.substring(1)
Substring1(s) == IF Len(s) = 0 THEN "" ELSE SubSeq(s, 2, Len(s))

\* the pattern p occurs in s at position i
OccursAt(s, p, i) == i >= 1 /\ i + Len(p) - 1 <= Len(s) /\ SubSeq(s, i, i + Len(p) - 1) = p

\* String.prototype.replace(/p/g, r) for a literal pattern p: a scan from the
\* left, which jumps to the next occurrence of the first character of p
RECURSIVE ReplaceAll(_, _, _)
ReplaceAll(s, p, r) ==
    LET i == IndexOf(s, CharAt(p, 1))
    IN  IF i = 0 THEN s
        ELSE IF OccursAt(s, p, i)
        THEN SubSeq(s, 1, i - 1) \o r \o ReplaceAll(SubSeq(s, i + Len(p), Len(s)), p, r)
        ELSE SubSeq(s, 1, i) \o ReplaceAll(SubSeq(s, i + 1, Len(s)), p, r)

\* Array.prototype.join
RECURSIVE Join(_, _)
Join(parts, sep) ==
    IF Len(parts) = 0 THEN ""
    ELSE IF Len(parts) = 1 THEN parts[1]
    ELSE parts[1] \o sep \o Join(Tail(parts), sep)

(***************************************************************************)
(* JavaScript values                                                       *)
(***************************************************************************)
JsUndef == [t |-> "undefined"]
JsNull == [t |-> "null"]
JsStr(s) == [t |-> "string", s |-> s]
JsNum(n) == [t |-> "number", n |-> n]
JsNaN == [t |-> "NaN"]
JsObj(f) == [t |-> "object", f |-> f]

\* ToBoolean, for the value types above
Truthy(v) ==
    CASE v.t = "undefined" -> FALSE
      [] v.t = "null" -> FALSE
      [] v.t = "string" -> v.s # ""
      [] v.t = "number" -> v.n # 0
      [] OTHER -> TRUE

(***************************************************************************)
(* Numbers: the integer n stands for the decimal n / Unit.  The arithmetic *)
(* is exact decimal arithmetic; binary floating-point error is not         *)
(* modelled.                                                               *)
(***************************************************************************)
UnitDigits == 2 + 2
RECURSIVE Pow10(_)
Pow10(k) == IF k <= 0 THEN 1 ELSE 10 * Pow10(k - 1)
Unit == Pow10(UnitDigits)

Abs(n) == IF n < 0 THEN -n ELSE n

DigitChar(d) == CharAt("0123456789", d + 1)
DigitVal(c) == IndexOf("0123456789", c) - 1

RECURSIVE NatToString(_)
NatToString(n) == IF n < 10 THEN DigitChar(n) ELSE NatToString(n \div 10) \o DigitChar(n % 10)

\* the digits of the fraction f / 10^w, without trailing zeros
RECURSIVE FracDigits(_, _)
FracDigits(f, w) ==
    IF f = 0 THEN ""
    ELSE DigitChar(f \div Pow10(w - 1)) \o FracDigits(f % Pow10(w - 1), w - 1)

\* Number.prototype.toString (decimal notation; no exponent in the modelled range)
NumToString(n) ==
    (IF n < 0 THEN "-" ELSE "")
        \o NatToString(Abs(n) \div Unit)
        \o (IF Abs(n) % Unit = 0 THEN "" ELSE "." \o FracDigits(Abs(n) % Unit, UnitDigits))

\* the string a template literal `${v}` puts in place of v
JsToString(v) ==
    CASE v.t = "string" -> v.s
      [] v.t = "number" -> NumToString(v.n)
      [] v.t = "NaN" -> "NaN"
      [] v.t = "null" -> "null"
      [] v.t = "undefined" -> "undefined"

\* the length of the longest prefix of s made of decimal digits
RECURSIVE DigitRun(_)
DigitRun(s) ==
    IF Len(s) = 0 \/ CharAt(s, 1) \notin Digit THEN 0 ELSE 1 + DigitRun(SubSeq(s, 2, Len(s)))

RECURSIVE DigitsToNat(_)
DigitsToNat(s) ==
    IF Len(s) = 0 THEN 0 ELSE 10 * DigitsToNat(SubSeq(s, 1, Len(s) - 1)) + DigitVal(CharAt(s, Len(s)))

\* the first UnitDigits digits of a fraction, as a count of 1 / Unit
RECURSIVE FracToNat(_, _)
FracToNat(s, w) ==
    IF w = 0 THEN 0
    ELSE IF Len(s) = 0 THEN 0
    ELSE DigitVal(CharAt(s, 1)) * Pow10(w - 1) + FracToNat(SubSeq(s, 2, Len(s)), w - 1)

\* parseFloat: the longest prefix [+-]digits[.digits]; NaN when it has no digit.
\* Fraction digits beyond UnitDigits are dropped.
parseFloat(v) ==
    LET s == JsToString(v)
        signed == StartsWith(s, "-") \/ StartsWith(s, "+")
        body == IF signed THEN Substring1(s) ELSE s
        il == DigitRun(body)
        rest == SubSeq(body, il + 1, Len(body))
        frac == IF StartsWith(rest, ".") THEN SubSeq(rest, 2, 1 + DigitRun(Substring1(rest))) ELSE ""
        mag == DigitsToNat(SubSeq(body, 1, il)) * Unit + FracToNat(frac, UnitDigits)
    IN  IF il = 0 /\ Len(frac) = 0 THEN JsNaN
        ELSE JsNum(IF StartsWith(s, "-") THEN -mag ELSE mag)

\* Math.round(x * 10^k) / 10^k for x = n / Unit: to the nearest multiple of
\* 10^-k, a half rounded towards +infinity
RoundTo(n, k) ==
    IF k >= UnitDigits THEN n
    ELSE LET q == Pow10(UnitDigits - k) IN ((2 * n + q) \div (2 * q)) * q

\* Math.ceil(x) for x = n / Unit, as an integer
Ceil(n) == -((-n) \div Unit)

(***************************************************************************)
(* Style Resolver                                                          *)
(***************************************************************************)
CdnBase == "https://cdn.geolonia.com"

\* a slip: the pass-through test left out
styleIdToUrl_NoPassThrough(styleId, lang) ==
    IF Truthy(lang) /\ lang # JsStr("auto")
    THEN CdnBase \o "/style/" \o styleId \o "/" \o lang.s \o ".json"
    ELSE Split(styleId, ";")[1]

\* a slip: the language test inverted
styleIdToUrl_AutoTemplated(styleId, lang) ==
    IF StartsWith(styleId, "https://") THEN styleId
    ELSE IF Truthy(lang) /\ lang = JsStr("auto")
    THEN CdnBase \o "/style/" \o styleId \o "/" \o lang.s \o ".json"
    ELSE Split(styleId, ";")[1]

\* a slip: the legacy ';' suffix not cut off
styleIdToUrl_NoSplit(styleId, lang) ==
    IF StartsWith(styleId, "https://") THEN styleId
    ELSE IF Truthy(lang) /\ lang # JsStr("auto")
    THEN CdnBase \o "/style/" \o styleId \o "/" \o lang.s \o ".json"
    ELSE styleId

styleIdToUrl(styleId, lang) ==
    IF StartsWith(styleId, "https://") THEN styleId
    ELSE IF Truthy(lang) /\ lang # JsStr("auto")
    THEN CdnBase \o "/style/" \o styleId \o "/" \o lang.s \o ".json"
    ELSE Split(styleId, ";")[1]

(***************************************************************************)
(* Hash Codec: URLSearchParams over window.location.hash                   *)
(*                                                                         *)
(* URLSearchParams is the application/x-www-form-urlencoded parser and     *)
(* serializer of the URL standard.  A parameter list is a sequence of     *)
(* <<name, value>> pairs.  The percent-encoding table covers the           *)
(* characters the inputs of the model are made of.                         *)
(***************************************************************************)
\* bytes the urlencoded serializer leaves as they are, besides alphanumerics
UrlencodedSafe == { "*", "-", ".", "_" }

PctChars == { "/", "~", ":", ";", "=", "&", "%", "+", ",", "#", "?", "^", " " }

PctCode(c) ==
    CASE c = "/" -> "%2F"
      [] c = "~" -> "%7E"
      [] c = ":" -> "%3A"
      [] c = ";" -> "%3B"
      [] c = "=" -> "%3D"
      [] c = "&" -> "%26"
      [] c = "%" -> "%25"
      [] c = "+" -> "%2B"
      [] c = "," -> "%2C"
      [] c = "#" -> "%23"
      [] c = "?" -> "%3F"
      [] c = "^" -> "%5E"
      [] c = " " -> "%20"

UrlencodedPlain == Alnum \cup UrlencodedSafe

\* urlencoded byte serializer, one character
UrlEncodeChar(c) ==
    IF c \in UrlencodedPlain THEN c
    ELSE IF c = " " THEN "+"
    ELSE PctCode(c)

\* urlencoded byte serializer: a scan from the left, which jumps to the next
\* character that is not left as it is
RECURSIVE UrlEncode(_)
UrlEncode(s) ==
    LET coded == { i \in 1..Len(s) : CharAt(s, i) \notin UrlencodedPlain }
    IN  IF coded = {} THEN s
        ELSE LET i == CHOOSE k \in coded : \A j \in coded : k <= j
             IN  SubSeq(s, 1, i - 1) \o UrlEncodeChar(CharAt(s, i)) \o UrlEncode(SubSeq(s, i + 1, Len(s)))

HexUpper(c) ==
    CASE c = "a" -> "A" [] c = "b" -> "B" [] c = "c" -> "C"
      [] c = "d" -> "D" [] c = "e" -> "E" [] c = "f" -> "F"
      [] OTHER -> c

\* the escape '%XX' that starts at position i of s, upper-cased
EscapeAt(s, i) == "%" \o HexUpper(CharAt(s, i + 1)) \o HexUpper(CharAt(s, i + 2))

\* the character each escape of the table stands for
PctDecodeTable == [e \in { PctCode(c) : c \in PctChars } |-> CHOOSE c \in PctChars : PctCode(c) = e]

\* an escape of a character of the table starts at position i of s
IsEscapeAt(s, i) ==
    /\ i + 2 <= Len(s)
    /\ CharAt(s, i) = "%"
    /\ EscapeAt(s, i) \in DOMAIN PctDecodeTable

\* percent-decode: a '%' followed by the two hex digits of a character of the
\* table is replaced by that character; any other '%' is left as it is.  A
\* scan from the left, which jumps to the next '%'.
RECURSIVE PercentDecode(_)
PercentDecode(s) ==
    LET i == IndexOf(s, "%")
    IN  IF i = 0 THEN s
        ELSE IF IsEscapeAt(s, i)
        THEN SubSeq(s, 1, i - 1) \o PctDecodeTable[EscapeAt(s, i)]
                 \o PercentDecode(SubSeq(s, i + 3, Len(s)))
        ELSE SubSeq(s, 1, i) \o PercentDecode(SubSeq(s, i + 1, Len(s)))

\* urlencoded string parser, one name or value: '+' is a space, then percent-decode
UrlDecode(s) == PercentDecode(ReplaceAll(s, "+", " "))

\* urlencoded parser, one '&'-separated piece: split at the first '='
ParsePiece(piece) ==
    LET i == IndexOf(piece, "=")
    IN  IF i = 0 THEN <<UrlDecode(piece), "">>
        ELSE <<UrlDecode(SubSeq(piece, 1, i - 1)), UrlDecode(SubSeq(piece, i + 1, Len(piece)))>>

RECURSIVE ParsePieces(_)
ParsePieces(pieces) ==
    IF Len(pieces) = 0 THEN <<>>
    ELSE IF pieces[1] = "" THEN ParsePieces(Tail(pieces))
    ELSE <<ParsePiece(pieces[1])>> \o ParsePieces(Tail(pieces))

\* new URLSearchParams(qstr): a leading '?' is dropped, empty pieces are skipped
URLSearchParams(qstr) ==
    ParsePieces(Split(IF StartsWith(qstr, "?") THEN Substring1(qstr) ELSE qstr, "&"))

\* URLSearchParams.prototype.toString
RECURSIVE SerializePairs(_)
SerializePairs(q) ==
    IF Len(q) = 0 THEN <<>>
    ELSE <<UrlEncode(q[1][1]) \o "=" \o UrlEncode(q[1][2])>> \o SerializePairs(Tail(q))

ParamsToString(q) == Join(SerializePairs(q), "&")

\* URLSearchParams.prototype.get: the value of the first pair of that name, or null
HasParam(q, name) == \E i \in 1..Len(q) : q[i][1] = name

FirstIndex(q, name) == CHOOSE i \in 1..Len(q) : q[i][1] = name /\ \A j \in 1..(i - 1) : q[j][1] # name

ParamsGet(q, name) == IF HasParam(q, name) THEN JsStr(q[FirstIndex(q, name)][2]) ELSE JsNull

\* URLSearchParams.prototype.delete: every pair of that name is removed
RECURSIVE ParamsDelete(_, _)
ParamsDelete(q, name) ==
    IF Len(q) = 0 THEN <<>>
    ELSE IF q[1][1] = name THEN ParamsDelete(Tail(q), name)
    ELSE <<q[1]>> \o ParamsDelete(Tail(q), name)

\* URLSearchParams.prototype.set: the first pair of that name takes the value and
\* the others are removed; a pair is appended when there is none
ParamsSet(q, name, value) ==
    IF HasParam(q, name)
    THEN LET i == FirstIndex(q, name)
         IN  SubSeq(q, 1, i - 1) \o <<(<<name, value>>)>> \o ParamsDelete(SubSeq(q, i + 1, Len(q)), name)
    ELSE Append(q, <<name, value>>)

\* the getter of window.location.hash: empty when the fragment is empty
LocationHash(frag) == IF frag = "" THEN "" ELSE "#" \o frag

\* the setter of window.location.hash: one leading '#' is dropped
SetLocationHash(v) == IF StartsWith(v, "#") THEN Substring1(v) ELSE v

parseHash(frag) == URLSearchParams(Substring1(LocationHash(frag)))

\* a slip: '/' left percent-encoded
updateHash_NoSlash(q) == SetLocationHash("#" \o ParamsToString(q))

\* the fragment after updateHash(q)
updateHash(q) == SetLocationHash("#" \o ReplaceAll(ParamsToString(q), "%2F", "/"))

(***************************************************************************)
(* Persisted view state                                                    *)
(*                                                                         *)
(* A localStorage item is NoItem (getItem returns null), the empty string, *)
(* a text that is not JSON, or the JSON text of a value; a JSON text is    *)
(* represented by the value it denotes.  An object is a function from its  *)
(* keys to values.                                                         *)
(***************************************************************************)
NoItem == [kind |-> "none"]
EmptyItem == [kind |-> "empty"]
InvalidItem == [kind |-> "invalid"]
JsonItem(v) == [kind |-> "json", v |-> v]

StorageModes == { "ok", "quota", "unavailable" }

EmptyProps == [k \in {} |-> JsNull]

\* the own enumerable properties an object spread copies: those of an object,
\* none for null or a number
OwnProps(v) == IF v.t = "object" THEN v.f ELSE EmptyProps

\* { ...a, ...b }
ObjectSpread(a, b) == [k \in DOMAIN a \cup DOMAIN b |-> IF k \in DOMAIN b THEN b[k] ELSE a[k]]

\* JSON.stringify of an object: undefined properties are left out, NaN is written as null
JSON_stringify(props) ==
    JsonItem(JsObj([k \in { j \in DOMAIN props : props[j].t # "undefined" } |->
                       IF props[k].t = "NaN" THEN JsNull ELSE props[k]]))

StateFields == { "z", "lat", "lng", "style", "lang" }

INITIAL_STATE ==
    [ z |-> JsNum(6 * Unit),
      lng |-> JsNum((136944 * Unit) \div 1000),
      lat |-> JsNum((35645 * Unit) \div 1000),
      style |-> JsStr("geolonia/basic"),
      lang |-> JsStr("auto") ]

\* the state read from storage: the defaults when the access throws, the item
\* is null or empty, or JSON.parse throws; otherwise the defaults overlaid with
\* the parsed value
getCurrentSavedState(mode, item) ==
    IF mode = "unavailable" THEN INITIAL_STATE
    ELSE IF item.kind \in { "none", "empty" } THEN INITIAL_STATE
    ELSE IF item.kind = "invalid" THEN INITIAL_STATE
    ELSE ObjectSpread(INITIAL_STATE, OwnProps(item.v))

\* a slip: the input laid over the defaults instead of over the stored state
setSavedState_NoMerge(mode, item, input) ==
    IF mode = "ok"
    THEN JSON_stringify(ObjectSpread(INITIAL_STATE, input))
    ELSE item

\* the item 'geolstate' after setSavedState(input); setItem throws, and the
\* item is left as it was, unless storage works
setSavedState(mode, item, input) ==
    IF mode = "ok"
    THEN JSON_stringify(ObjectSpread(getCurrentSavedState(mode, item), input))
    ELSE item

(***************************************************************************)
(* View Controller                                                         *)
(***************************************************************************)
\* the harness of the pure-function specifications is idle in Spec
NoCall == [op |-> "none"]
NoRet == [done |-> FALSE]
Ret(v) == [done |-> TRUE, v |-> v]

\* a || b
JsOr(a, b) == IF Truthy(a) THEN a ELSE b

NoCamera == [zoom |-> JsUndef, lat |-> JsUndef, lng |-> JsUndef]
NoSetStyle == [called |-> FALSE]
\* the values the user picked last in the two selects, undefined before any pick
NotPicked == [style |-> JsUndef, lang |-> JsUndef]
NoMountEnv == [fragment |-> "", item |-> NoItem]
NoSource == [type |-> "none"]
NoFit == [called |-> FALSE]

\* the in-memory state of a page that has not rendered
AppReset ==
    /\ phase = "unmounted"
    /\ style = JsUndef
    /\ language = JsUndef
    /\ zLatLngString = ""
    /\ stage = JsUndef
    /\ currentStyleRef = ""
    /\ effectPending = FALSE
    /\ mapRef = FALSE
    /\ mapStyle = ""
    /\ styleLoaded = FALSE
    /\ camera = NoCamera
    /\ mountEnv = NoMountEnv
    /\ picked = NotPicked
    /\ lastSetStyle = NoSetStyle
    /\ submits = <<>>
    /\ requests = <<>>
    /\ mapSource = NoSource
    /\ mapLayers = <<>>
    /\ viewport = NoFit
    /\ mapCalls = <<>>
    /\ clicks = <<>>
    /\ popups = <<>>
    /\ errorLog = <<>>
    /\ raised = {}

Unmounted ==
    /\ AppReset
    /\ stageOverride = JsNull

getDefaultCameraOptions(state, frag) ==
    LET mapStr == JsOr(ParamsGet(parseHash(frag), "map"),
                       JsStr(JsToString(state.z) \o "/" \o JsToString(state.lat) \o "/" \o JsToString(state.lng)))
        parts == Split(mapStr.s, "/")
        part(i) == IF i <= Len(parts) THEN JsStr(parts[i]) ELSE JsUndef
    IN  [zoom |-> parseFloat(part(1)), lat |-> parseFloat(part(2)), lng |-> parseFloat(part(3))]

defaultStyleFromHash(frag, savedState) ==
    JsOr(ParamsGet(parseHash(frag), "style"), savedState.style)

defaultLanguageFromHash(frag, savedState) ==
    JsOr(ParamsGet(parseHash(frag), "lang"), savedState.lang)

\* the first render of App and its commit.  The render throws when the stage
\* has to be read from a storage that cannot be accessed, or when the style is
\* not a string (styleIdToUrl calls style.startsWith).
Mount ==
    /\ phase = "unmounted"
    /\ LET savedState == getCurrentSavedState(storageMode, geolstate)
           st == defaultStyleFromHash(fragment, savedState)
           lang == defaultLanguageFromHash(fragment, savedState)
           hashStage == ParamsGet(parseHash(fragment), "stage")
           throws == \/ st.t # "string"
                     \/ ~Truthy(hashStage) /\ storageMode = "unavailable"
       IN  IF throws
           THEN /\ phase' = "crashed"
                /\ raised' = raised \cup { IF st.t # "string" THEN "styleIdToUrl" ELSE "stage" }
                /\ UNCHANGED <<style, language, stage, currentStyleRef, mapStyle, effectPending, mountEnv>>
           ELSE /\ phase' = "mounted"
                /\ raised' = raised
                /\ style' = st
                /\ language' = lang
                /\ stage' = JsOr(hashStage, JsOr(stageOverride, JsStr("v1")))
                /\ currentStyleRef' = styleIdToUrl(st.s, lang)
                /\ mapStyle' = styleIdToUrl(st.s, lang)
                /\ effectPending' = TRUE
                /\ mountEnv' = [fragment |-> fragment, item |-> geolstate]
    /\ UNCHANGED <<zLatLngString, mapRef, styleLoaded, camera, picked, lastSetStyle>>
    /\ UNCHANGED <<harnessVars, envVars>>
    /\ UNCHANGED <<searchVars, clickVars>>

\* onLoad: the map instance is handed over and jumps to the initial camera
OnLoad ==
    /\ phase = "mounted"
    /\ ~mapRef
    /\ mapRef' = TRUE
    /\ camera' = getDefaultCameraOptions(getCurrentSavedState(storageMode, geolstate), fragment)
    /\ UNCHANGED <<mapStyle, styleLoaded>>
    /\ UNCHANGED <<harnessVars, envVars, appVars, histVars>>
    /\ UNCHANGED <<searchVars, clickVars, raised>>

\* the map finishes loading its style
MapStyleLoaded ==
    /\ phase = "mounted"
    /\ ~styleLoaded
    /\ styleLoaded' = TRUE
    /\ UNCHANGED <<mapRef, mapStyle, camera>>
    /\ UNCHANGED <<harnessVars, envVars, appVars, histVars>>
    /\ UNCHANGED <<searchVars, clickVars, raised>>

\* the map starts loading sources or tiles of its style again
MapStyleBusy ==
    /\ phase = "mounted"
    /\ mapRef
    /\ styleLoaded
    /\ styleLoaded' = FALSE
    /\ UNCHANGED <<mapRef, mapStyle, camera>>
    /\ UNCHANGED <<harnessVars, envVars, appVars, histVars>>
    /\ UNCHANGED <<searchVars, clickVars, raised>>

LogTwoE5 == 30103
LogTileE5 == 45400

\* a slip: Math.floor in place of Math.ceil
Precision_Floor(zoom) ==
    LET centi == zoom \div (Unit \div 100)
    IN  (centi * LogTwoE5 + LogTileE5 * 100) \div (100000 * 100)

\* Math.ceil((zoom * Math.LN2 + Math.log(512 / 360 / 0.5)) / Math.LN10), with
\* log10(2) = 0.30103 and log10(512 / 360 / 0.5) = 0.45400 to five decimals;
\* zoom is a multiple of 0.01 and is counted in hundredths
Precision(zoom) ==
    LET centi == zoom \div (Unit \div 100)
    IN  -((-(centi * LogTwoE5 + LogTileE5 * 100)) \div (100000 * 100))

\* the string the moveend handler builds for the centre and zoom the map reports
PositionString(rawZoom, centerLat, centerLng) ==
    LET zoom == RoundTo(rawZoom, 2)
        precision == Precision(zoom)
        lng == RoundTo(centerLng, precision)
        lat == RoundTo(centerLat, precision)
        zStr == Ceil(zoom)
    IN  NumToString(zStr * Unit) \o "/" \o NumToString(lat) \o "/" \o NumToString(lng)

\* a slip: the centre saved as the map reports it
PositionInput_Raw(rawZoom, centerLat, centerLng) ==
    [z |-> JsNum(rawZoom), lat |-> JsNum(centerLat), lng |-> JsNum(centerLng)]

\* the partial state the moveend handler saves
PositionInput(rawZoom, centerLat, centerLng) ==
    LET precision == Precision(RoundTo(rawZoom, 2))
    IN  [z |-> JsNum(rawZoom), lat |-> JsNum(RoundTo(centerLat, precision)), lng |-> JsNum(RoundTo(centerLng, precision))]

\* the user moves the map to some centre and zoom; the moveend handler runs
MoveEnd(rawZoom, centerLat, centerLng) ==
    /\ phase = "mounted"
    /\ mapRef
    /\ ~effectPending
    /\ camera' = [zoom |-> JsNum(rawZoom), lat |-> JsNum(centerLat), lng |-> JsNum(centerLng)]
    /\ zLatLngString' = PositionString(rawZoom, centerLat, centerLng)
    /\ geolstate' = setSavedState(storageMode, geolstate, PositionInput(rawZoom, centerLat, centerLng))
    /\ effectPending' = (zLatLngString' # zLatLngString)
    /\ UNCHANGED <<phase, style, language, stage, currentStyleRef>>
    /\ UNCHANGED <<mapRef, mapStyle, styleLoaded>>
    /\ UNCHANGED <<harnessVars, fragment, stageOverride, storageMode, histVars>>
    /\ UNCHANGED <<searchVars, clickVars, raised>>

\* a slip: the style kept in memory only
onMapStyleChange_NotSaved(val) ==
    /\ style' = JsStr(val)
    /\ geolstate' = geolstate

onMapStyleChange(val) ==
    /\ style' = JsStr(val)
    /\ geolstate' = setSavedState(storageMode, geolstate, [style |-> JsStr(val)])

\* the user picks another style in the select
OnMapStyleChange(val) ==
    /\ phase = "mounted"
    /\ mapRef
    /\ ~effectPending
    /\ JsStr(val) # style
    /\ onMapStyleChange(val)
    /\ effectPending' = TRUE
    /\ picked' = [picked EXCEPT !.style = JsStr(val)]
    /\ UNCHANGED <<phase, language, zLatLngString, stage, currentStyleRef>>
    /\ UNCHANGED <<mapVars, mountEnv, lastSetStyle>>
    /\ UNCHANGED <<harnessVars, fragment, stageOverride, storageMode>>
    /\ UNCHANGED <<searchVars, clickVars, raised>>

onMapLanguageChange(val) ==
    /\ language' = JsStr(val)
    /\ geolstate' = setSavedState(storageMode, geolstate, [lang |-> JsStr(val)])

\* the user picks another language in the select
OnMapLanguageChange(val) ==
    /\ phase = "mounted"
    /\ mapRef
    /\ ~effectPending
    /\ JsStr(val) # language
    /\ onMapLanguageChange(val)
    /\ effectPending' = TRUE
    /\ picked' = [picked EXCEPT !.lang = JsStr(val)]
    /\ UNCHANGED <<phase, style, zLatLngString, stage, currentStyleRef>>
    /\ UNCHANGED <<mapVars, mountEnv, lastSetStyle>>
    /\ UNCHANGED <<harnessVars, fragment, stageOverride, storageMode>>
    /\ UNCHANGED <<searchVars, clickVars, raised>>

\* a slip: the position left out of the hash
SyncedHash_NoMap(frag, st, lang, zll) ==
    LET h0 == parseHash(frag)
        h1 == ParamsSet(h0, "style", st.s)
    IN  IF Truthy(lang) /\ lang # JsStr("auto")
        THEN ParamsSet(h1, "lang", JsToString(lang))
        ELSE ParamsDelete(h1, "lang")

\* a slip: the parameter list built anew instead of from the current hash
SyncedHash_Fresh(frag, st, lang, zll) ==
    LET h1 == ParamsSet(<<>>, "style", st.s)
        h2 == IF zll # "" THEN ParamsSet(h1, "map", zll) ELSE h1
    IN  IF Truthy(lang) /\ lang # JsStr("auto")
        THEN ParamsSet(h2, "lang", JsToString(lang))
        ELSE h2

\* the parameter list the sync effect writes
SyncedHash(frag, st, lang, zll) ==
    LET h0 == parseHash(frag)
        h1 == ParamsSet(h0, "style", st.s)
        h2 == IF zll # "" THEN ParamsSet(h1, "map", zll) ELSE h1
    IN  IF Truthy(lang) /\ lang # JsStr("auto")
        THEN ParamsSet(h2, "lang", JsToString(lang))
        ELSE ParamsDelete(h2, "lang")

\* a slip (the earlier revision): setStyle whenever the map exists
ShouldSetStyle_Always(map, loaded, current, newStyleUrl) == map

\* the guard of map.setStyle in the sync effect
ShouldSetStyle(map, loaded, current, newStyleUrl) == map /\ loaded /\ current # newStyleUrl

\* the sync effect: the hash is rewritten from the in-memory state, and the
\* style is handed to the map when the guard holds
SyncEffect ==
    /\ phase = "mounted"
    /\ effectPending
    /\ effectPending' = FALSE
    /\ fragment' = updateHash(SyncedHash(fragment, style, language, zLatLngString))
    /\ LET newStyleUrl == styleIdToUrl(style.s, language)
       IN  IF ShouldSetStyle(mapRef, styleLoaded, currentStyleRef, newStyleUrl)
           THEN /\ mapStyle' = newStyleUrl
                /\ styleLoaded' = FALSE
                /\ currentStyleRef' = newStyleUrl
                /\ lastSetStyle' = [called |-> TRUE, map |-> mapRef, loaded |-> styleLoaded,
                                    changed |-> (currentStyleRef # newStyleUrl)]
           ELSE UNCHANGED <<mapStyle, styleLoaded, currentStyleRef, lastSetStyle>>
    /\ UNCHANGED <<phase, style, language, zLatLngString, stage>>
    /\ UNCHANGED <<mapRef, camera, mountEnv, picked>>
    /\ UNCHANGED <<harnessVars, geolstate, stageOverride, storageMode>>
    /\ UNCHANGED <<searchVars, clickVars, raised>>

\* document.location.reload(): the page is torn down, and nothing of the
\* in-memory state survives.  The page that loads next starts its own life from
\* the URL and the storage it finds (an initial state of the specification).
PageReset ==
    /\ phase' = "reloading"
    /\ style' = JsUndef
    /\ language' = JsUndef
    /\ zLatLngString' = ""
    /\ stage' = JsUndef
    /\ currentStyleRef' = ""
    /\ effectPending' = FALSE
    /\ mapRef' = FALSE
    /\ mapStyle' = ""
    /\ styleLoaded' = FALSE
    /\ camera' = NoCamera
    /\ mountEnv' = NoMountEnv
    /\ picked' = NotPicked
    /\ lastSetStyle' = NoSetStyle
    /\ submits' = <<>>
    /\ requests' = <<>>
    /\ mapSource' = NoSource
    /\ mapLayers' = <<>>
    /\ viewport' = NoFit
    /\ mapCalls' = <<>>
    /\ clicks' = <<>>
    /\ popups' = <<>>
    /\ errorLog' = <<>>
    /\ raised' = {}

\* the stage button: the other stage is stored and written to the hash, and the
\* page reloads; setItem is not guarded, so the handler ends there, with the
\* exception uncaught, when it throws
HandleStageChange ==
    /\ phase = "mounted"
    /\ mapRef
    /\ ~effectPending
    /\ IF storageMode = "ok"
       THEN /\ LET newStage == IF stage = JsStr("dev") THEN "v1" ELSE "dev"
               IN  /\ stageOverride' = JsStr(newStage)
                   /\ fragment' = updateHash(ParamsSet(parseHash(fragment), "stage", newStage))
            /\ PageReset
       ELSE /\ raised' = raised \cup { "handleStageChange" }
            /\ UNCHANGED <<fragment, stageOverride, ctlVars>>
    /\ UNCHANGED <<harnessVars, geolstate, storageMode>>

\* the options of the style select and of the language select
StyleOptions == { "geolonia/gsi", "https://geolonia.github.io/openstreetmap-carto/style.json" }
LanguageOptions == { "auto", "en" }

\* the centres and zooms the map reports
Positions ==
    { [zoom |-> 6 * Unit, lat |-> 356581, lng |-> 1397414],
      [zoom |-> 75049, lat |-> -120464, lng |-> -770428],
      [zoom |-> -2 * Unit, lat |-> 356581, lng |-> -1397414] }

\* the fragments a page is opened with
InitialFragments ==
    { "",
      "style=geolonia/gsi",
      "lang=en",
      "map=7/35.6/139.7",
      "style=geolonia/midnight&lang=ja&map=12.5/-12.05/-77.04",
      "tilesetOverride=a:b;c:d&stage=dev&map=7/35.6/139.7",
      "style=&lang=&map=" }

\* the contents of the item 'geolstate' a page is opened with
InitialItems ==
    { NoItem, InvalidItem,
      JsonItem(JsObj([style |-> JsStr("geolonia/notebook")])),
      JsonItem(JsObj([z |-> JsNum(9 * Unit), lat |-> JsNum(-12 * Unit), lng |-> JsNum(-77 * Unit),
                      style |-> JsStr("geolonia/midnight"), lang |-> JsStr("ja")])),
      JsonItem(JsObj([z |-> JsNull, style |-> JsNull])) }

Init ==
    /\ call = NoCall
    /\ ret = NoRet
    /\ fragment \in InitialFragments
    /\ geolstate \in InitialItems
    /\ stageOverride = JsNull
    /\ storageMode \in StorageModes
    /\ AppReset

Next ==
    \/ Mount
    \/ OnLoad
    \/ MapStyleLoaded
    \/ MapStyleBusy
    \/ \E p \in Positions : MoveEnd(p.zoom, p.lat, p.lng)
    \/ \E val \in StyleOptions : OnMapStyleChange(val)
    \/ \E val \in LanguageOptions : OnMapLanguageChange(val)
    \/ SyncEffect
    \/ HandleStageChange

Spec == Init /\ [][Next]_vars

(***************************************************************************)
(* Search Feature                                                          *)
(*                                                                         *)
(* The coordinates of features and of parsed queries count 1 / FineUnit of *)
(* a degree.  The characters of the labels outside ASCII are written as    *)
(* the stand-ins "{N}" (north latitude), "{S}" (south latitude), "{E}"     *)
(* (east longitude), "{W}" (west longitude) and "{deg}" (degree sign).     *)
(* What normalize() of the library makes of a text is an input: a          *)
(* submission is a text together with the list of { lat, lng } parsed from *)
(* it.                                                                     *)
(***************************************************************************)
MaxSubmits == 2

FineUnit == 10 * Unit

LabelScale == 10000
FitPadding == 200

\* Math.round(Math.abs(x) * 10000) / 10000 for x = n / FineUnit, as a count of 1 / Unit
RoundLabel(n) ==
    LET ratio == FineUnit \div LabelScale
    IN  ((2 * Abs(n) + ratio) \div (2 * ratio)) * (Unit \div LabelScale)

\* a slip: the label written with the signed latitude and longitude swapped
CoordLabel_Swapped(lat, lng) ==
    (IF lat >= 0 THEN "{N}" ELSE "{S}") \o NumToString(RoundLabel(lng)) \o "{deg}, "
        \o (IF lng >= 0 THEN "{E}" ELSE "{W}") \o NumToString(RoundLabel(lat)) \o "{deg}"

\* the label 'index' of a coordinate
CoordLabel(lat, lng) ==
    (IF lat >= 0 THEN "{N}" ELSE "{S}") \o NumToString(RoundLabel(lat)) \o "{deg}, "
        \o (IF lng >= 0 THEN "{E}" ELSE "{W}") \o NumToString(RoundLabel(lng)) \o "{deg}"

PointFeature(lng, lat, properties) ==
    [type |-> "Feature", properties |-> properties,
     geometry |-> [type |-> "Point", coordinates |-> <<lng, lat>>]]

LineFeature(coordinates, properties) ==
    [type |-> "Feature", properties |-> properties,
     geometry |-> [type |-> "LineString", coordinates |-> coordinates]]

FeatureCollection(features) == [type |-> "FeatureCollection", features |-> features]

\* the parsed coordinates that have both a latitude and a longitude
queriesInCoord(coords) == SelectSeq(coords, LAMBDA coord : coord.lat # JsNull /\ coord.lng # JsNull)

\* the feature collection of a coordinate search
CoordData(coords) ==
    FeatureCollection([i \in 1..Len(coords) |->
        PointFeature(coords[i].lng.n, coords[i].lat.n,
                     [index |-> CoordLabel(coords[i].lat.n, coords[i].lng.n)])])

\* a slip: the position hint written as lat,lng
SearchUrl_LatLng(query, center) ==
    "https://api.maps.geolonia.com/v1/search?"
        \o ParamsToString(ParamsSet(ParamsSet(<<>>, "q", query), "pos",
                                    JsToString(center.lat) \o "," \o JsToString(center.lng)))

\* the URL of the search request
SearchUrl(query, center) ==
    "https://api.maps.geolonia.com/v1/search?"
        \o ParamsToString(ParamsSet(ParamsSet(<<>>, "q", query), "pos",
                                    JsToString(center.lng) \o "," \o JsToString(center.lat)))

SearchLayerIds == <<"search-results-circle", "search-results-symbol", "search-results-label">>

\* a slip: the layers added on every search
LayersToAdd_Always(layers) == SearchLayerIds

\* the layers handleSearch adds: all three unless the circle layer exists
LayersToAdd(layers) ==
    IF \E i \in 1..Len(layers) : layers[i] = "search-results-circle" THEN <<>> ELSE SearchLayerIds

\* a slip: a source that exists keeps its data
SourceWith_NoSetData(source, data) ==
    IF source.type = "none" THEN [type |-> "geojson", data |-> data] ELSE source

\* the source 'search-results' after setData on the source that exists, or
\* after addSource
SourceWith(source, data) ==
    IF source.type = "none" THEN [type |-> "geojson", data |-> data] ELSE [source EXCEPT !.data = data]

NoBounds == [empty |-> TRUE]

\* new LngLatBounds(c, c) and bounds.extend(c)
ExtendBounds(bounds, c) ==
    IF bounds = NoBounds
    THEN [empty |-> FALSE, west |-> c[1], south |-> c[2], east |-> c[1], north |-> c[2]]
    ELSE [empty |-> FALSE,
          west |-> IF c[1] < bounds.west THEN c[1] ELSE bounds.west,
          south |-> IF c[2] < bounds.south THEN c[2] ELSE bounds.south,
          east |-> IF c[1] > bounds.east THEN c[1] ELSE bounds.east,
          north |-> IF c[2] > bounds.north THEN c[2] ELSE bounds.north]

\* a slip: the first coordinate pair of every feature taken into the bounds
RECURSIVE FeatureBounds_AllFeatures(_, _)
FeatureBounds_AllFeatures(features, bounds) ==
    IF Len(features) = 0 THEN bounds
    ELSE FeatureBounds_AllFeatures(Tail(features),
             IF features[1].geometry.type # "Point"
             THEN ExtendBounds(bounds, features[1].geometry.coordinates[1])
             ELSE ExtendBounds(bounds, features[1].geometry.coordinates))

\* the loop over data.features: the bounds of the Point features
RECURSIVE FeatureBounds(_, _)
FeatureBounds(features, bounds) ==
    IF Len(features) = 0 THEN bounds
    ELSE FeatureBounds(Tail(features),
             IF features[1].geometry.type # "Point" THEN bounds
             ELSE ExtendBounds(bounds, features[1].geometry.coordinates))

\* data is a feature collection (data.features can be iterated)
IsCollection(data) == "features" \in DOMAIN data

\* the second half of handleSearch: the data are put into the source, the
\* layers are ensured and the viewport is fitted.  Iterating data.features
\* throws when data is undefined, after the source and the layers were handled.
ApplySearchData(data, sub) ==
    IF mapSource.type \notin { "none", "geojson" }
    THEN UNCHANGED <<mapSource, mapLayers, viewport, mapCalls>>
    ELSE LET added == LayersToAdd(mapLayers)
             bounds == IF IsCollection(data) THEN FeatureBounds(data.features, NoBounds) ELSE NoBounds
             sourceCall == [op |-> IF mapSource.type = "none" THEN "addSource" ELSE "setData", sub |-> sub]
             layerCalls == [i \in 1..Len(added) |-> [op |-> "addLayer", id |-> added[i], sub |-> sub]]
             fitCalls == IF bounds = NoBounds THEN <<>>
                         ELSE <<[op |-> "fitBounds", bounds |-> bounds, padding |-> FitPadding, sub |-> sub]>>
         IN  /\ mapSource' = SourceWith(mapSource, data)
             /\ mapLayers' = mapLayers \o added
             /\ viewport' = IF bounds = NoBounds THEN viewport
                            ELSE [called |-> TRUE, bounds |-> bounds, padding |-> FitPadding]
             /\ mapCalls' = mapCalls \o <<sourceCall>> \o layerCalls \o fitCalls

\* the search form is submitted with the text input.text, of which normalize()
\* makes input.coords
HandleSearch(input) ==
    /\ phase = "mounted"
    /\ ~effectPending
    /\ Len(submits) < MaxSubmits
    /\ LET sub == Len(submits) + 1
           coords == queriesInCoord(input.coords)
       IN  /\ submits' = Append(submits, [text |-> input.text, coords |-> input.coords,
                                          map |-> mapRef, center |-> camera])
           /\ IF ~mapRef
              THEN UNCHANGED <<requests, mapSource, mapLayers, viewport, mapCalls>>
              ELSE IF Len(coords) > 0
              THEN /\ ApplySearchData(CoordData(coords), sub)
                   /\ UNCHANGED requests
              ELSE /\ requests' = Append(requests, [sub |-> sub, method |-> "get",
                                                    url |-> SearchUrl(input.text, camera),
                                                    state |-> "pending"])
                   /\ UNCHANGED <<mapSource, mapLayers, viewport, mapCalls>>
    /\ UNCHANGED <<harnessVars, envVars, appVars, mapVars, histVars, clickVars, raised>>

\* the fetch of request i settles with resp: it rejects, or resolves with a
\* response whose body is or is not JSON; the rest of handleSearch runs
SearchResponse(i, resp) ==
    /\ phase = "mounted"
    /\ i \in 1..Len(requests)
    /\ requests[i].state = "pending"
    /\ IF resp.kind # "json"
       THEN /\ requests' = [requests EXCEPT ![i] = [@ EXCEPT !.state = "rejected"] @@ [resp |-> resp]]
            /\ UNCHANGED <<mapSource, mapLayers, viewport, mapCalls>>
       ELSE IF "error" \in DOMAIN resp.body /\ resp.body.error
       THEN /\ requests' = [requests EXCEPT ![i] = [@ EXCEPT !.state = "error"] @@ [resp |-> resp]]
            /\ UNCHANGED <<mapSource, mapLayers, viewport, mapCalls>>
       ELSE LET data == IF "geojson" \in DOMAIN resp.body THEN resp.body.geojson ELSE JsUndef
            IN  /\ requests' = [requests EXCEPT ![i] =
                                   [@ EXCEPT !.state = IF IsCollection(data) THEN "applied" ELSE "threw"]
                                       @@ [resp |-> resp]]
                /\ ApplySearchData(data, requests[i].sub)
    /\ UNCHANGED submits
    /\ UNCHANGED <<harnessVars, envVars, appVars, mapVars, histVars, clickVars, raised>>

\* the texts submitted, with the coordinates normalize() parses from them
SearchInputs ==
    { [text |-> "tokyo station", coords |-> <<>>],
      [text |-> "a&b=c", coords |-> <<>>],
      [text |-> "35.6", coords |-> <<[lat |-> JsNum(356 * (FineUnit \div 10)), lng |-> JsNull]>>],
      [text |-> "35.6,139.7",
       coords |-> <<[lat |-> JsNum(356 * (FineUnit \div 10)), lng |-> JsNum(1397 * (FineUnit \div 10))]>>],
      [text |-> "-12.04637,-77.04279 35.6,139.7 35.6",
       coords |-> <<[lat |-> JsNum(-1204637), lng |-> JsNum(-7704279)],
                    [lat |-> JsNum(356 * (FineUnit \div 10)), lng |-> JsNum(1397 * (FineUnit \div 10))],
                    [lat |-> JsNum(356 * (FineUnit \div 10)), lng |-> JsNull]>>] }

\* feature collections the search API answers with
FoundStations ==
    FeatureCollection(<<PointFeature(13976712, 3568124, [name |-> "Tokyo"]),
                        LineFeature(<<(<<13990000, 3540000>>), (<<13991000, 3541000>>)>>, [name |-> "line"]),
                        PointFeature(13970060, 3565858, [name |-> "Shibuya"])>>)

FoundOne == FeatureCollection(<<PointFeature(-7704279, -1204637, [name |-> "Lima"])>>)

FoundLine ==
    FeatureCollection(<<LineFeature(<<(<<13990000, 3540000>>), (<<13991000, 3541000>>)>>, [name |-> "line"])>>)

\* what a search request can come back with
SearchResponses ==
    { [kind |-> "rejected"],
      [kind |-> "text", status |-> 502],
      [kind |-> "json", status |-> 200, body |-> [error |-> FALSE, geojson |-> FoundStations]],
      [kind |-> "json", status |-> 200, body |-> [error |-> FALSE, geojson |-> FoundOne]],
      [kind |-> "json", status |-> 200, body |-> [error |-> FALSE, geojson |-> FoundLine]],
      [kind |-> "json", status |-> 400, body |-> [error |-> TRUE, message |-> "bad request"]],
      [kind |-> "json", status |-> 200, body |-> [error |-> FALSE]],
      [kind |-> "json", status |-> 403, body |-> [message |-> "Forbidden"]] }

\* the position the map reports in the search specification
SearchPositions == { [zoom |-> 6 * Unit, lat |-> 356581, lng |-> 1397414] }

InitSearch ==
    /\ call = NoCall
    /\ ret = NoRet
    /\ fragment = ""
    /\ geolstate = NoItem
    /\ storageMode = "ok"
    /\ Unmounted

NextSearch ==
    \/ Mount
    \/ OnLoad
    \/ SyncEffect
    \/ \E p \in SearchPositions : MoveEnd(p.zoom, p.lat, p.lng)
    \/ \E input \in SearchInputs : HandleSearch(input)
    \/ \E i \in 1..MaxSubmits, resp \in SearchResponses : SearchResponse(i, resp)

SpecSearch == InitSearch /\ [][NextSearch]_vars

(***************************************************************************)
(* Feature-Info Popup (src/unnamed/part_001, addFeatureInfoHandler, the    *)
(* later revision; the earlier one has the same try/catch and the same     *)
(* test on data.elements).  A click on the map posts an Overpass query and *)
(* the response, when it has elements, is shown in a popup.  The popup's   *)
(* HTML is kept as its parts: the title, the rows of tags and the links.   *)
(* The Japanese texts of the source are written as English in braces.      *)
(***************************************************************************)
MaxClicks == 2

AroundRadius == 10

OverpassUrl == "https://overpass-api.de/api/interpreter"

\* the statements of the query for a click at lat, lng
OverpassQuery(lat, lng) ==
    LET around == "(around:" \o NatToString(AroundRadius) \o "," \o NumToString(lat)
                      \o "," \o NumToString(lng) \o ");"
    IN  <<"[out:json];", "node" \o around, "way" \o around, "relation" \o around, ".all out body 1;">>

tagTranslations ==
    << <<"addr:block_number", "{block number}">>,
       <<"addr:city", "{city}">>,
       <<"addr:housenumber", "{house number}">>,
       <<"addr:neighbourhood", "{chome}">>,
       <<"addr:postcode", "{postcode}">>,
       <<"addr:province", "{prefecture}">>,
       <<"addr:quarter", "{quarter}">>,
       <<"brand", "{brand}">>,
       <<"brand:en", "{brand (English)}">>,
       <<"brand:ja", "{brand (Japanese)}">>,
       <<"brand:wikidata", "Wikidata ID">>,
       <<"brand:wikipedia", "Wikipedia">>,
       <<"name", "{name}">>,
       <<"name:en", "{name (English)}">>,
       <<"name:ja", "{name (Japanese)}">>,
       <<"opening_hours", "{opening hours}">>,
       <<"shop", "{shop type}">> >>

\* obj[key] of an object given as its entries <<key, value>>, the values strings
EntryOf(entries, key) ==
    IF \E i \in 1..Len(entries) : entries[i][1] = key
    THEN JsStr(entries[CHOOSE i \in 1..Len(entries) : entries[i][1] = key][2])
    ELSE JsUndef

\* tagTranslations[key] || key
translatedKey(key) == JsOr(EntryOf(tagTranslations, key), JsStr(key)).s

\* a slip: the last element in place of the first
FeatureOf_Last(elements) == elements[Len(elements)]

\* data.elements[0]
FeatureOf(elements) == elements[1]

\* feature.tags || {}
TagsOf(feature) == IF "tags" \in DOMAIN feature THEN feature.tags ELSE <<>>

\* tags.name || tags['name:ja'] || tags['name:en'] || tags['name:zh']
DisplayName(tags) ==
    JsOr(JsOr(JsOr(EntryOf(tags, "name"), EntryOf(tags, "name:ja")), EntryOf(tags, "name:en")),
         EntryOf(tags, "name:zh"))

\* Object.entries(tags).map(...): one row per tag, the key translated
PopupRows(tags) ==
    [i \in 1..Len(tags) |-> [label |-> translatedKey(tags[i][1]), value |-> tags[i][2]]]

\* a slip: the four links written whatever the tags are
PopupLinks_Always(tags) ==
    <<[text |-> "{see Wikidata}", href |-> "https://www.wikidata.org/wiki/" \o JsToString(EntryOf(tags, "brand:wikidata"))],
      [text |-> "{see Wikipedia}", href |-> "https://ja.wikipedia.org/wiki/" \o JsToString(DisplayName(tags))],
      [text |-> "{see the reference}", href |-> JsToString(EntryOf(tags, "source_ref"))],
      [text |-> "{see the website}", href |-> JsToString(EntryOf(tags, "website"))]>>

\* the conditional blocks of the popup, each a link
PopupLinks(tags) ==
    LET name == DisplayName(tags)
        wikidata == EntryOf(tags, "brand:wikidata")
        source_ref == EntryOf(tags, "source_ref")
        website == EntryOf(tags, "website")
    IN  (IF Truthy(wikidata)
         THEN <<[text |-> "{see Wikidata}", href |-> "https://www.wikidata.org/wiki/" \o wikidata.s]>>
         ELSE <<>>)
        \o (IF Truthy(name)
            THEN <<[text |-> "{see Wikipedia}", href |-> "https://ja.wikipedia.org/wiki/" \o name.s]>>
            ELSE <<>>)
        \o (IF Truthy(source_ref)
            THEN <<[text |-> "{see the reference}", href |-> source_ref.s]>>
            ELSE <<>>)
        \o (IF Truthy(website)
            THEN <<[text |-> "{see the website}", href |-> website.s]>>
            ELSE <<>>)

\* the HTML set on the popup for the feature
PopupHtml(feature) ==
    LET tags == TagsOf(feature)
        name == DisplayName(tags)
        popupContent == PopupRows(tags)
    IN  [title |-> JsOr(name, JsStr("No Title")).s,
         rows |-> popupContent,
         placeholder |-> IF popupContent = <<>> THEN "{no information at this point}" ELSE "",
         links |-> PopupLinks(tags)]

\* data.elements && data.elements.length > 0
HasElements(data) == "elements" \in DOMAIN data /\ Len(data.elements) > 0

\* the map is clicked at lngLat: the handler posts the query
MapClick(lngLat) ==
    /\ phase = "mounted"
    /\ mapRef
    /\ ~effectPending
    /\ Len(clicks) < MaxClicks
    /\ clicks' = Append(clicks, [lngLat |-> lngLat, method |-> "post", url |-> OverpassUrl,
                                 body |-> OverpassQuery(lngLat.lat, lngLat.lng),
                                 state |-> "pending"])
    /\ UNCHANGED <<popups, errorLog>>
    /\ UNCHANGED <<harnessVars, envVars, appVars, mapVars, histVars, searchVars, raised>>

\* the fetch of click i settles with resp; the rest of the handler runs:
\* a rejected fetch and a body that is not JSON throw into the catch
OverpassResponse(i, resp) ==
    /\ phase = "mounted"
    /\ i \in 1..Len(clicks)
    /\ clicks[i].state = "pending"
    /\ LET outcome == IF resp.kind # "json" THEN "caught"
                      ELSE IF HasElements(resp.body) THEN "popup"
                      ELSE "nothing"
       IN  /\ clicks' = [clicks EXCEPT ![i] = [@ EXCEPT !.state = outcome] @@ [resp |-> resp]]
           /\ popups' = IF outcome = "popup"
                        THEN Append(popups, [click |-> i,
                                             lngLat |-> <<clicks[i].lngLat.lng, clicks[i].lngLat.lat>>,
                                             html |-> PopupHtml(FeatureOf(resp.body.elements))])
                        ELSE popups
           /\ errorLog' = IF outcome = "caught"
                          THEN Append(errorLog, [click |-> i, message |-> "Error fetching feature info:"])
                          ELSE errorLog
    /\ UNCHANGED <<harnessVars, envVars, appVars, mapVars, histVars, searchVars, raised>>

\* the points clicked
ClickPoints ==
    { [lng |-> 1397454, lat |-> 356586], [lng |-> -770428, lat |-> -120464] }

\* elements Overpass answers with
ShopElement ==
    [type |-> "node",
     tags |-> << <<"name", "Lawson">>, <<"brand:wikidata", "Q1557223">>, <<"shop", "convenience">>,
                 <<"website", "https://www.lawson.co.jp/">>, <<"source_ref", "https://example.org/ref">> >>]

RoadElement ==
    [type |-> "way", tags |-> << <<"highway", "residential">>, <<"name:zh", "Dongjing">> >>]

EmptyValuesElement ==
    [type |-> "node",
     tags |-> << <<"name", "">>, <<"name:en", "Tokyo Tower">>, <<"name:ja", "Toukyou tawaa">>,
                 <<"brand:wikidata", "">>, <<"website", "">> >>]

BuildingElement == [type |-> "way", tags |-> << <<"building", "yes">>, <<"brand:wikidata", "Q42">> >>]

UntaggedElement == [type |-> "node"]

\* what an Overpass request can come back with
OverpassResponses ==
    { [kind |-> "rejected"],
      [kind |-> "text", status |-> 429],
      [kind |-> "json", status |-> 200, body |-> [elements |-> <<>>]],
      [kind |-> "json", status |-> 200, body |-> [remark |-> "runtime error"]],
      [kind |-> "json", status |-> 200, body |-> [elements |-> <<ShopElement, RoadElement>>]],
      [kind |-> "json", status |-> 200, body |-> [elements |-> <<RoadElement, ShopElement>>]],
      [kind |-> "json", status |-> 200, body |-> [elements |-> <<EmptyValuesElement>>]],
      [kind |-> "json", status |-> 200, body |-> [elements |-> <<BuildingElement>>]],
      [kind |-> "json", status |-> 200, body |-> [elements |-> <<UntaggedElement, ShopElement>>]] }

NextClick ==
    \/ Mount
    \/ OnLoad
    \/ SyncEffect
    \/ \E lngLat \in ClickPoints : MapClick(lngLat)
    \/ \E i \in 1..MaxClicks, resp \in OverpassResponses : OverpassResponse(i, resp)

SpecClick == InitSearch /\ [][NextClick]_vars

(***************************************************************************)
(* The selections under fairness: the sync effect, once scheduled, runs    *)
(* (React flushes passive effects), and a style that is loading finishes   *)
(* loading unless the map is made busy again.                              *)
(***************************************************************************)
NextLive ==
    \/ Mount
    \/ OnLoad
    \/ MapStyleLoaded
    \/ MapStyleBusy
    \/ \E p \in Positions : MoveEnd(p.zoom, p.lat, p.lng)
    \/ \E val \in StyleOptions : OnMapStyleChange(val)
    \/ \E val \in LanguageOptions : OnMapLanguageChange(val)
    \/ SyncEffect

\* the sync effect is scheduled: SyncEffect is enabled exactly then, and every
\* SyncEffect step ends it
EffectDue == phase = "mounted" /\ effectPending

\* []<>~EffectDue is WF_vars(SyncEffect), written with the enabling condition
\* of SyncEffect spelled out
SpecLive ==
    /\ InitSearch
    /\ [][NextLive]_vars
    /\ []<>(~EffectDue)
    /\ WF_vars(MapStyleLoaded)

(***************************************************************************)
(* The page across reloads: the fragment and local storage outlive the     *)
(* page, everything else is built anew by the next mount.                  *)
(***************************************************************************)
\* the user reloads the page, or opens the URL it shows again
UserReload ==
    /\ phase = "mounted"
    /\ mapRef
    /\ ~effectPending
    /\ PageReset
    /\ UNCHANGED <<harnessVars, envVars>>

\* the page that was requested starts: App is about to render
PageLoad ==
    /\ phase = "reloading"
    /\ phase' = "unmounted"
    /\ UNCHANGED <<style, language, zLatLngString, stage, currentStyleRef, effectPending>>
    /\ UNCHANGED <<harnessVars, envVars, mapVars, histVars, searchVars, clickVars, raised>>

\* fragments with keys the application does not manage
ReloadFragments ==
    { "",
      "b=2&stage=v1&a=1/x+y&b=3&flag" }

InitReload ==
    /\ call = NoCall
    /\ ret = NoRet
    /\ fragment \in ReloadFragments
    /\ geolstate = NoItem
    /\ storageMode = "ok"
    /\ Unmounted

NextReload ==
    \/ Mount
    \/ OnLoad
    \/ \E p \in Positions : MoveEnd(p.zoom, p.lat, p.lng)
    \/ \E val \in StyleOptions : OnMapStyleChange(val)
    \/ \E val \in LanguageOptions : OnMapLanguageChange(val)
    \/ SyncEffect
    \/ HandleStageChange
    \/ UserReload
    \/ PageLoad

SpecReload == InitReload /\ [][NextReload]_vars

(***************************************************************************)
(* Specifications of the pure functions: the inputs are drawn from bounded *)
(* sets and the function is applied to them.                               *)
(***************************************************************************)

\* ---- styleIdToUrl ----
StyleIdInputs ==
    { "geolonia/basic", "geolonia/gsi", "geoloniamaps/smartcity-base",
      "geolonia/basic;en", ";en", "a;b;c", "",
      "https://geolonia.github.io/openstreetmap-carto/style.json",
      "https://example.com/style;v2.json", "https://",
      "http://example.com/style.json", "http://example.com/a;b",
      "HTTPS://example.com/style.json", "https:/basic" }

LangInputs == { JsUndef, JsStr(""), JsStr("auto"), JsStr("ja"), JsStr("en") }

StyleCalls == { [op |-> "styleIdToUrl", style |-> s, lang |-> l] : s \in StyleIdInputs, l \in LangInputs }

CallStyleIdToUrl ==
    /\ call.op = "styleIdToUrl"
    /\ ~ret.done
    /\ ret' = Ret(styleIdToUrl(call.style, call.lang))
    /\ UNCHANGED <<call, envVars, appVars, mapVars, histVars>>
    /\ UNCHANGED <<searchVars, clickVars, raised>>

NextStyleCall ==
    /\ call.op = "styleIdToUrl"
    /\ ret.done
    /\ call' \in StyleCalls
    /\ ret' = NoRet
    /\ UNCHANGED <<envVars, appVars, mapVars, histVars>>
    /\ UNCHANGED <<searchVars, clickVars, raised>>

InitStyle ==
    /\ call \in StyleCalls
    /\ ret = NoRet
    /\ fragment = ""
    /\ geolstate = NoItem
    /\ storageMode = "ok"
    /\ Unmounted

NextStyle == CallStyleIdToUrl \/ NextStyleCall

SpecStyle == InitStyle /\ [][NextStyle]_vars

\* ---- parseHash / updateHash ----
MaxValueLen == 2
MaxPairs == 2

CodecKeys == { "k", "map" }
CodecAlphabet == { "a", "7", "/", ".", "~" }

RECURSIVE StringsUpTo(_, _)
StringsUpTo(alphabet, n) ==
    IF n = 0 THEN { "" }
    ELSE LET shorter == StringsUpTo(alphabet, n - 1)
         IN  shorter \cup { s \o c : s \in shorter, c \in alphabet }

CodecPairs == { k \o "=" \o v : k \in CodecKeys, v \in StringsUpTo(CodecAlphabet, MaxValueLen) }

RECURSIVE FragmentsUpTo(_)
FragmentsUpTo(n) ==
    IF n = 0 THEN { "" }
    ELSE LET fewer == FragmentsUpTo(n - 1)
         IN  fewer \cup { IF f = "" THEN p ELSE f \o "&" \o p : f \in fewer, p \in CodecPairs }

\* fragments that are not lists of key=value pairs, or hold other characters
OddFragments == { "k", "k=a&&map=7", "k=a=7", "=a", "k=a+7", "k=%2F", "k=%2f&k=%7e", "k=a%20b", "k=a:7;a", "?k=a" }

CodecFragments == FragmentsUpTo(MaxPairs) \cup OddFragments

\* updateHash(parseHash()) on the current location
CallRoundTrip ==
    /\ call.op = "roundTrip"
    /\ ~ret.done
    /\ ret' = Ret(parseHash(fragment))
    /\ fragment' = updateHash(parseHash(fragment))
    /\ UNCHANGED <<call, geolstate, storageMode, ctlVars, raised>>

InitCodec ==
    /\ fragment \in CodecFragments
    /\ call = [op |-> "roundTrip", s |-> fragment]
    /\ ret = NoRet
    /\ geolstate = NoItem
    /\ storageMode = "ok"
    /\ Unmounted

NextCodec == CallRoundTrip

SpecCodec == InitCodec /\ [][NextCodec]_vars

\* ---- getCurrentSavedState / setSavedState ----
StoredItems ==
    { NoItem, EmptyItem, InvalidItem,
      JsonItem(JsNull), JsonItem(JsNum(5 * Unit)),
      JsonItem(JsObj(EmptyProps)),
      JsonItem(JsObj([style |-> JsStr("geolonia/gsi")])),
      JsonItem(JsObj([z |-> JsNum(7 * Unit + Unit \div 2), lat |-> JsNum(35 * Unit), lng |-> JsNum(139 * Unit)])),
      JsonItem(JsObj([z |-> JsNum(9 * Unit), lat |-> JsNum(-12 * Unit), lng |-> JsNum(-77 * Unit),
                      style |-> JsStr("geolonia/midnight"), lang |-> JsStr("ja")])),
      JsonItem(JsObj([z |-> JsNull])),
      JsonItem(JsObj([lat |-> JsStr("north"), lang |-> JsNull])) }

PartialInputs ==
    { [style |-> JsStr("x")],
      [lang |-> JsStr("en")],
      [z |-> JsNum(4 * Unit), lat |-> JsNum(1 * Unit), lng |-> JsNum(2 * Unit)],
      [style |-> JsStr("geolonia/gsi"), lang |-> JsStr("auto")],
      EmptyProps }

SetCalls(item) == { [op |-> "setSavedState", input |-> i, prior |-> item] : i \in PartialInputs }

CallGetCurrentSavedState ==
    /\ call.op \in { "getCurrentSavedState", "getAfterSet" }
    /\ ~ret.done
    /\ ret' = Ret(getCurrentSavedState(storageMode, geolstate))
    /\ UNCHANGED <<call, envVars, appVars, mapVars, histVars>>
    /\ UNCHANGED <<searchVars, clickVars, raised>>

CallSetSavedState ==
    /\ call.op = "setSavedState"
    /\ geolstate' = setSavedState(storageMode, geolstate, call.input)
    /\ call' = [call EXCEPT !.op = "getAfterSet"]
    /\ UNCHANGED <<ret, fragment, storageMode, ctlVars, raised>>

NextStoreCall ==
    /\ call.op = "getAfterSet"
    /\ ret.done
    /\ call' \in SetCalls(geolstate)
    /\ ret' = NoRet
    /\ UNCHANGED <<envVars, appVars, mapVars, histVars>>
    /\ UNCHANGED <<searchVars, clickVars, raised>>

InitStore ==
    /\ geolstate \in StoredItems
    /\ storageMode \in StorageModes
    /\ call \in { [op |-> "getCurrentSavedState"] } \cup SetCalls(geolstate)
    /\ ret = NoRet
    /\ fragment = ""
    /\ Unmounted

NextStore == CallGetCurrentSavedState \/ CallSetSavedState \/ NextStoreCall

SpecStore == InitStore /\ [][NextStore]_vars

(***************************************************************************)
(* Properties                                                              *)
(***************************************************************************)
\* RFC 3986 scheme: ALPHA *( ALPHA / DIGIT / "+" / "-" / "." ) ":"
HasScheme(s) ==
    \E i \in 2..Len(s) :
        /\ CharAt(s, i) = ":"
        /\ CharAt(s, 1) \in Lower \cup Upper
        /\ \A j \in 2..(i - 1) : CharAt(s, j) \in Alnum \cup { "+", "-", "." }

ResolverDone == call.op = "styleIdToUrl" /\ ret.done

LangAbsentOrAuto(l) == l = JsUndef \/ l = JsStr("") \/ l = JsStr("auto")

\* C1 as stated: every style id that is an absolute URL (an id with a URL
\* scheme) is returned unchanged, whatever the language argument.
C1_AbsoluteUrlPassesThrough ==
    (ResolverDone /\ HasScheme(call.style)) => ret.v = call.style

\* C1 as amended: every style id that starts with 'https://' is returned
\* unchanged, whatever the language argument (absent, 'auto' or a concrete
\* language); the pass-through has priority over the language template.
C1_HttpsPassesThrough ==
    (ResolverDone /\ StartsWith(call.style, "https://")) => ret.v = call.style

C1_Witness ==
    /\ ResolverDone
    /\ call.style = "https://example.com/style;v2.json"
    /\ call.lang = JsStr("en")
    /\ ret.v = call.style

\* C2: for every style id without a URL scheme and every language given and
\* other than 'auto', the result is '{base}/style/{id}/{language}.json' with the
\* id inserted as given.
C2_LanguageTemplate ==
    (ResolverDone /\ ~HasScheme(call.style) /\ call.lang.t = "string" /\ call.lang.s \notin { "", "auto" })
        => ret.v = "https://cdn.geolonia.com/style/" \o call.style \o "/" \o call.lang.s \o ".json"

C2_Witness ==
    /\ ResolverDone
    /\ call.style = "geolonia/basic;en"
    /\ call.lang = JsStr("ja")
    /\ ret.v = "https://cdn.geolonia.com/style/geolonia/basic;en/ja.json"

\* r is the portion of s before its first ';' (s itself when it has none)
IsBeforeFirstSemicolon(r, s) ==
    /\ Len(r) <= Len(s)
    /\ SubSeq(s, 1, Len(r)) = r
    /\ \A i \in 1..Len(r) : CharAt(r, i) # ";"
    /\ Len(r) = Len(s) \/ CharAt(s, Len(r) + 1) = ";"

\* C3: for every non-absolute style id, when the language is 'auto' or absent
\* (undefined or empty), the result is the portion of the id before its first
\* ';', the whole id when it has none.
C3_TruncatedAtSemicolon ==
    (ResolverDone /\ ~HasScheme(call.style) /\ LangAbsentOrAuto(call.lang))
        => IsBeforeFirstSemicolon(ret.v, call.style)

C3_Witness ==
    /\ ResolverDone
    /\ call.style = "a;b;c"
    /\ call.lang = JsUndef
    /\ ret.v = "a"

\* RFC 3986 unreserved characters: ALPHA / DIGIT / "-" / "." / "_" / "~"
Unreserved == Alnum \cup { "-", ".", "_", "~" }

\* s is a list of key=value pairs joined by '&', keys not empty, keys and values
\* made of the allowed characters only; the empty fragment is the empty list
IsPairList(s, allowed) ==
    \/ s = ""
    \/ \A n \in 1..Len(Split(s, "&")) :
          LET piece == Split(s, "&")[n]
              i == IndexOf(piece, "=")
          IN  /\ i >= 2
              /\ \A j \in 1..Len(piece) : j # i => CharAt(piece, j) \in allowed

RoundTripDone == call.op = "roundTrip" /\ ret.done

\* C4 as stated: for every well-formed fragment s of key=value pairs with no
\* reserved character other than '/', updateHash(parseHash(s)) sets the fragment
\* back to exactly s; an absent fragment parses to the empty mapping.
C4_RoundTripUnreserved ==
    /\ (RoundTripDone /\ IsPairList(call.s, Unreserved \cup { "/" })) => fragment = call.s
    /\ (RoundTripDone /\ call.s = "") => ret.v = <<>>

\* C4 as amended: for every fragment s of key=value pairs whose keys and values
\* are made of ASCII letters, digits, '-', '.', '_' and '/',
\* updateHash(parseHash(s)) sets the fragment back to exactly s (same keys, same
\* order, same values, '/' left literal); an absent fragment parses to the empty
\* mapping.
C4_RoundTripUrlencodedSafe ==
    /\ (RoundTripDone /\ IsPairList(call.s, Alnum \cup { "-", ".", "_", "/" })) => fragment = call.s
    /\ (RoundTripDone /\ call.s = "") => ret.v = <<>>

C4_Witness ==
    /\ RoundTripDone
    /\ call.s = "map=7/&k=.7"
    /\ ret.v = << <<"map", "7/">>, <<"k", ".7">> >>
    /\ fragment = "map=7/&k=.7"

\* the state getCurrentSavedState() returns after setSavedState(input) holds the
\* fields of input with their new values and every other field as
\* getCurrentSavedState() returned it before the call
MergedAfterSet ==
    /\ DOMAIN ret.v = StateFields \cup DOMAIN call.input
    /\ \A k \in DOMAIN ret.v :
          ret.v[k] = IF k \in DOMAIN call.input THEN call.input[k]
                     ELSE getCurrentSavedState(storageMode, call.prior)[k]
    /\ (call.prior = NoItem /\ call.input = [style |-> JsStr("x")]) =>
          ret.v = [ z |-> JsNum(6 * Unit), lat |-> JsNum((35645 * Unit) \div 1000), lng |-> JsNum((136944 * Unit) \div 1000),
                    style |-> JsStr("x"), lang |-> JsStr("auto") ]

\* C5 as stated: for every prior content of the item and every partial input,
\* getCurrentSavedState() after setSavedState(input) returns the fields of input
\* with their new values and every other field as it was before the call.
C5_MergeAlways ==
    (call.op = "getAfterSet" /\ ret.done) => MergedAfterSet

\* C5 as amended: when the storage takes the write, for every prior content of
\* the item and every partial input, getCurrentSavedState() after
\* setSavedState(input) returns the fields of input with their new values and
\* every other field as getCurrentSavedState() returned it before the call; on
\* empty storage setSavedState({style:'x'}) yields style 'x' and the defaults for
\* z, lat, lng and lang.
C5_MergeKeepsOtherFields ==
    (call.op = "getAfterSet" /\ ret.done /\ storageMode = "ok") => MergedAfterSet

C5_Witness ==
    /\ call.op = "getAfterSet" /\ ret.done /\ storageMode = "ok"
    /\ call.prior.kind = "json"
    /\ call.input = [style |-> JsStr("x")]
    /\ ret.v.style = JsStr("x")
    /\ ret.v.lang = JsStr("ja")
    /\ ret.v.z = JsNum(9 * Unit)

\* the type the field k of InitialSavedState is declared with
WellTyped(k, v) == IF k \in { "z", "lat", "lng" } THEN v.t = "number" ELSE v.t = "string"

\* the item holds a JSON object that gives the field k a value of its type
StoresField(item, k) ==
    /\ item.kind = "json"
    /\ item.v.t = "object"
    /\ k \in DOMAIN item.v.f
    /\ WellTyped(k, item.v.f[k])

\* C6: for every content of the item 'geolstate', getCurrentSavedState returns a
\* state in which z, lat, lng, style and lang are all populated, the fixed
\* default standing in for every malformed or missing field.
C6_AlwaysFullyPopulated ==
    (call.op \in { "getCurrentSavedState", "getAfterSet" } /\ ret.done) =>
        \A k \in StateFields :
            /\ k \in DOMAIN ret.v
            /\ WellTyped(k, ret.v[k])
            /\ ~StoresField(geolstate, k) => ret.v[k] = INITIAL_STATE[k]

\* the value the hash frag gives the key k, when it gives one that is not empty
HashProvides(frag, k) == Truthy(ParamsGet(parseHash(frag), k))

\* hash first, then the stored field, then the default
Reconciled(env, k) ==
    IF HashProvides(env.fragment, k) THEN ParamsGet(parseHash(env.fragment), k)
    ELSE IF storageMode # "unavailable" /\ StoresField(env.item, k) THEN env.item.v.f[k]
    ELSE INITIAL_STATE[k]

\* the position of a 'zoom/lat/lng' string
PositionOf(mapStr) ==
    LET parts == Split(mapStr, "/")
        part(i) == IF i <= Len(parts) THEN JsStr(parts[i]) ELSE JsUndef
    IN  [zoom |-> parseFloat(part(1)), lat |-> parseFloat(part(2)), lng |-> parseFloat(part(3))]

ReconciledPosition(env) ==
    IF HashProvides(env.fragment, "map") THEN PositionOf(ParamsGet(parseHash(env.fragment), "map").s)
    ELSE [zoom |-> Reconciled(env, "z"), lat |-> Reconciled(env, "lat"), lng |-> Reconciled(env, "lng")]

\* the page is in its initial view: mounted, and nothing picked or moved yet
InitialStyle == phase = "mounted" /\ picked.style = JsUndef
InitialLanguage == phase = "mounted" /\ picked.lang = JsUndef
InitialPosition == phase = "mounted" /\ mapRef /\ zLatLngString = ""

\* C7: the initial style, language and position are each the value of the URL
\* hash (keys style, lang, map) when the hash gives one, otherwise the value in
\* local storage, otherwise the fixed default, each resolved on its own.
C7_MountReconciliation ==
    /\ InitialStyle => style = Reconciled(mountEnv, "style")
    /\ InitialLanguage => language = Reconciled(mountEnv, "lang")
    /\ InitialPosition => camera = ReconciledPosition(mountEnv)

\* the value the item 'geolstate' holds for the field k
Persisted(k) ==
    IF geolstate.kind = "json" /\ geolstate.v.t = "object" /\ k \in DOMAIN geolstate.v.f
    THEN geolstate.v.f[k]
    ELSE JsUndef

\* the style and the language picked last are the ones in memory and in storage
SelectionInStep ==
    /\ picked.style # JsUndef => (style = picked.style /\ Persisted("style") = style)
    /\ picked.lang # JsUndef => (language = picked.lang /\ Persisted("lang") = language)

\* C8 as stated: after every style or language change by the user, and after
\* any sequence of such changes and moveend events, the style/language in
\* memory is the value picked and the one in local storage equals it, in every
\* state another handler can observe.
C8_SelectionPersisted == SelectionInStep

\* C8 as amended: when local storage takes the writes, after every style or
\* language change by the user, and after any sequence of such changes and
\* moveend events, the style/language in memory is the value picked and the one
\* in local storage equals it, in every state another handler can observe.
C8_SelectionPersistedWhenStored == storageMode = "ok" => SelectionInStep

C8_Witness ==
    /\ storageMode = "ok"
    /\ picked.style = JsStr("https://geolonia.github.io/openstreetmap-carto/style.json")
    /\ picked.lang = JsStr("en")
    /\ zLatLngString # ""
    /\ mountEnv.item = JsonItem(JsObj([style |-> JsStr("geolonia/notebook")]))
    /\ Persisted("style") = style
    /\ Persisted("lang") = language
    /\ Persisted("z").t = "number"

\* C9: once the sync effect has run, the 'style' key of the fragment equals the
\* style in memory, the 'lang' key equals the language in memory when that is
\* not 'auto' and is absent when it is 'auto', and the 'map' key equals the
\* position string reported last.
C9_HashFollowsState ==
    (phase = "mounted" /\ ~effectPending) =>
        LET hash == parseHash(fragment)
        IN  /\ ParamsGet(hash, "style") = style
            /\ (Truthy(language) /\ language # JsStr("auto")) => ParamsGet(hash, "lang") = language
            /\ language = JsStr("auto") => ~HasParam(hash, "lang")
            /\ zLatLngString # "" => ParamsGet(hash, "map") = JsStr(zLatLngString)

C9_Witness ==
    /\ phase = "mounted" /\ ~effectPending
    /\ picked.style = JsStr("https://geolonia.github.io/openstreetmap-carto/style.json")
    /\ language = JsStr("en")
    /\ zLatLngString = "8/-12.046/-77.043"
    /\ mountEnv.fragment = "tilesetOverride=a:b;c:d&stage=dev&map=7/35.6/139.7"
    /\ fragment = "tilesetOverride=a%3Ab%3Bc%3Ad&stage=dev&map=8/-12.046/-77.043"
                      \o "&style=https%3A//geolonia.github.io/openstreetmap-carto/style.json&lang=en"

\* C10: map.setStyle is called only when the map instance exists,
\* isStyleLoaded() is true at that moment and the resolved URL differs from
\* currentStyleRef; and currentStyleRef always equals the URL handed to the map
\* last (the initial mapStyle or the last setStyle argument).
C10_SetStyleGuarded ==
    /\ lastSetStyle.called => (lastSetStyle.map /\ lastSetStyle.loaded /\ lastSetStyle.changed)
    /\ phase = "mounted" => currentStyleRef = mapStyle

C10_Witness ==
    /\ lastSetStyle.called
    /\ picked.style = JsStr("geolonia/gsi")
    /\ language = JsStr("en")
    /\ mapStyle = "https://cdn.geolonia.com/style/geolonia/gsi/en.json"
    /\ currentStyleRef = mapStyle
    /\ mountEnv.fragment = ""

\* the number of decimal digits for the zoom z (a count of 1 / Unit): the
\* integer d with 10^(d-1) < 2^round(z,2) * 512 / 360 / 0.5 <= 10^d, compared
\* through logarithms to base 10 scaled by 10^7, and 0 when d is negative
DigitsAtZoom(z) ==
    LET hundredths == (2 * z + Unit \div 100) \div (2 * (Unit \div 100))
        scaled == hundredths * 30103 + 4540000
        d == CHOOSE k \in -3..9 : (k - 1) * 10000000 < scaled /\ scaled <= k * 10000000
    IN  IF d < 0 THEN 0 ELSE d

\* r is x rounded to d decimal digits: a multiple of 10^-d nearest to x
IsRoundedTo(r, x, d) ==
    LET step == IF d >= UnitDigits THEN 1 ELSE Pow10(UnitDigits - d)
    IN  /\ r % step = 0
        /\ 2 * Abs(r - x) <= step

\* a moveend has been handled; camera holds the centre and zoom it reported
Moved == phase = "mounted" /\ zLatLngString # ""

\* C11: after every moveend at zoom z, the lat and lng written to the hash and
\* to local storage are the reported centre rounded to exactly
\* ceil((round(z,2)*ln2 + ln(512/360/0.5)) / ln10) decimal digits, never to a
\* negative number of digits.
C11_PositionPrecision ==
    Moved =>
        LET d == DigitsAtZoom(camera.zoom.n)
            inHash == PositionOf(zLatLngString)
        IN  /\ inHash.lat.t = "number" /\ IsRoundedTo(inHash.lat.n, camera.lat.n, d)
            /\ inHash.lng.t = "number" /\ IsRoundedTo(inHash.lng.n, camera.lng.n, d)
            /\ storageMode = "ok" =>
                  /\ Persisted("lat") = inHash.lat
                  /\ Persisted("lng") = inHash.lng
            /\ ~effectPending => ParamsGet(parseHash(fragment), "map") = JsStr(zLatLngString)

C11_Witness ==
    /\ Moved /\ ~effectPending /\ storageMode = "ok"
    /\ camera = [zoom |-> JsNum(-2 * Unit), lat |-> JsNum(356581), lng |-> JsNum(-1397414)]
    /\ zLatLngString = "-2/36/-140"
    /\ Persisted("lat") = JsNum(36 * Unit)
    /\ Persisted("lng") = JsNum(-140 * Unit)

\* the decimal notation of n / FineUnit, n >= 0
FineString(n) ==
    NatToString(n \div FineUnit)
        \o (IF n % FineUnit = 0 THEN "" ELSE "." \o FracDigits(n % FineUnit, UnitDigits + 1))

\* the positions of the calls that put data into the source
SourceCalls == { j \in 1..Len(mapCalls) : mapCalls[j].op \in { "addSource", "setData" } }

\* the submission whose data the source holds: the one of the last source call
LastSourceSub == mapCalls[CHOOSE j \in SourceCalls : \A k \in SourceCalls : k <= j].sub

\* submission k was made with the map loaded and a text that parses to at
\* least one coordinate with a latitude and a longitude
IsCoordinateSearch(k) ==
    /\ submits[k].map
    /\ \E i \in 1..Len(submits[k].coords) : submits[k].coords[i].lat # JsNull /\ submits[k].coords[i].lng # JsNull

\* the parsed coordinates of submission k that have both parts, in order
ValidCoords(k) == SelectSeq(submits[k].coords, LAMBDA c : c.lat # JsNull /\ c.lng # JsNull)

\* the source holds the result of a coordinate search
CoordinateResultShown == SourceCalls # {} /\ IsCoordinateSearch(LastSourceSub)

\* the result has one Point feature per valid coordinate, in order, at [lng, lat]
OnePointPerCoordinate ==
    LET coords == ValidCoords(LastSourceSub)
        features == mapSource.data.features
    IN  /\ mapSource.data.type = "FeatureCollection"
        /\ Len(features) = Len(coords)
        /\ \A i \in 1..Len(coords) :
              /\ features[i].type = "Feature"
              /\ features[i].geometry = [type |-> "Point", coordinates |-> <<coords[i].lng.n, coords[i].lat.n>>]

\* every coordinate search made with the map loaded puts its data into the
\* source, once
CoordinateSearchesApplied ==
    \A k \in 1..Len(submits) :
        IsCoordinateSearch(k) => Cardinality({ j \in SourceCalls : mapCalls[j].sub = k }) = 1

\* C12 as stated: a coordinate search results in one Point feature per parsed
\* coordinate, in order, at [lng, lat], labelled with the north/south prefix
\* followed by |lat| and the east/west prefix followed by |lng|, in degrees.
C12_CoordinateFeatures ==
    /\ CoordinateSearchesApplied
    /\ CoordinateResultShown =>
          /\ OnePointPerCoordinate
          /\ \A i \in 1..Len(ValidCoords(LastSourceSub)) :
                LET c == ValidCoords(LastSourceSub)[i]
                IN  mapSource.data.features[i].properties.index =
                        (IF c.lat.n >= 0 THEN "{N}" ELSE "{S}") \o FineString(Abs(c.lat.n)) \o "{deg}, "
                            \o (IF c.lng.n >= 0 THEN "{E}" ELSE "{W}") \o FineString(Abs(c.lng.n)) \o "{deg}"

\* r / Unit is n / FineUnit rounded to four decimal places
IsFourPlaces(r, n) == 2 * Abs(r * (FineUnit \div Unit) - n) <= FineUnit \div Unit

\* C12 as amended: a coordinate search results in one Point feature per parsed
\* coordinate, in order, at [lng, lat], labelled with the north/south prefix
\* followed by |lat| rounded to four decimal places and the east/west prefix
\* followed by |lng| rounded to four decimal places, in degrees.
C12_CoordinateFeaturesRounded ==
    /\ CoordinateSearchesApplied
    /\ CoordinateResultShown =>
          /\ OnePointPerCoordinate
          /\ \A i \in 1..Len(ValidCoords(LastSourceSub)) :
                LET c == ValidCoords(LastSourceSub)[i]
                IN  \E la \in { Abs(c.lat.n) \div 10, Abs(c.lat.n) \div 10 + 1 },
                       lo \in { Abs(c.lng.n) \div 10, Abs(c.lng.n) \div 10 + 1 } :
                        /\ IsFourPlaces(la, Abs(c.lat.n))
                        /\ IsFourPlaces(lo, Abs(c.lng.n))
                        /\ mapSource.data.features[i].properties.index =
                              (IF c.lat.n >= 0 THEN "{N}" ELSE "{S}") \o NumToString(la) \o "{deg}, "
                                  \o (IF c.lng.n >= 0 THEN "{E}" ELSE "{W}") \o NumToString(lo) \o "{deg}"

C12_Witness ==
    /\ CoordinateResultShown
    /\ submits[LastSourceSub].text = "-12.04637,-77.04279 35.6,139.7 35.6"
    /\ Len(mapSource.data.features) = 2
    /\ mapSource.data.features[1].properties.index = "{S}12.0464{deg}, {W}77.0428{deg}"
    /\ mapSource.data.features[1].geometry.coordinates = <<-7704279, -1204637>>
    /\ mapSource.data.features[2].properties.index = "{N}35.6{deg}, {E}139.7{deg}"
    /\ mapSource.data.features[2].geometry.coordinates = <<13970000, 3560000>>

\* the requests issued for submission k
RequestsOf(k) == { j \in 1..Len(requests) : requests[j].sub = k }

\* submission k was made with the map loaded and a text that does not parse to
\* a coordinate
IsRemoteSearch(k) == submits[k].map /\ ~IsCoordinateSearch(k)

\* the parameters of the query part of a URL
QueryOf(url) == URLSearchParams(SubSeq(url, IndexOf(url, "?") + 1, Len(url)))

\* C13: every submission made with the map loaded whose text does not parse as
\* a coordinate issues exactly one HTTP GET to the search endpoint, with q the
\* text and pos '{lng},{lat}' of the map centre at submission time; there is
\* never a second request for it, and no other submission issues a request.
C13_OneGetPerRemoteSearch ==
    /\ \A k \in 1..Len(submits) :
          Cardinality(RequestsOf(k)) = IF IsRemoteSearch(k) THEN 1 ELSE 0
    /\ \A j \in 1..Len(requests) :
          LET r == requests[j]
              submit == submits[r.sub]
          IN  /\ r.method = "get"
              /\ SubSeq(r.url, 1, IndexOf(r.url, "?")) = "https://api.maps.geolonia.com/v1/search?"
              /\ Len(QueryOf(r.url)) = 2
              /\ ParamsGet(QueryOf(r.url), "q") = JsStr(submit.text)
              /\ ParamsGet(QueryOf(r.url), "pos")
                    = JsStr(NumToString(submit.center.lng.n) \o "," \o NumToString(submit.center.lat.n))

C13_Witness ==
    /\ Len(submits) = 2
    /\ submits[1].text = "35.6,139.7"
    /\ submits[2].text = "a&b=c"
    /\ submits[2].center.lat = JsNum(356581)
    /\ Len(requests) = 1
    /\ requests[1].url = "https://api.maps.geolonia.com/v1/search?q=a%26b%3Dc&pos=139.7414%2C35.6581"
    /\ requests[1].state = "rejected"

\* no request was answered by a body that is neither an error nor a result
NoneThrew == \A j \in 1..Len(requests) : requests[j].state # "threw"

\* the data of the search with submission number k: the geojson of the
\* response to its request, or the collection built from its coordinates
ResultOf(k) ==
    IF IsCoordinateSearch(k) THEN CoordData(ValidCoords(k))
    ELSE requests[CHOOSE j \in RequestsOf(k) : TRUE].resp.body.geojson

\* the number of addLayer calls for the layer id
AddLayerCalls(id) == Cardinality({ j \in 1..Len(mapCalls) : mapCalls[j].op = "addLayer" /\ mapCalls[j].id = id })

\* C14: after any sequence of successful searches, overlapping ones included,
\* the map has one source 'search-results', created by the first search applied
\* and updated by setData afterwards, which holds the feature collection of the
\* search applied last; and each of the three layers exists exactly once,
\* addLayer having been called once for each id.
C14_OneSourceThreeLayers ==
    IF SourceCalls = {}
    THEN mapSource = NoSource /\ mapLayers = <<>>
    ELSE /\ NoneThrew =>
              /\ mapSource = [type |-> "geojson", data |-> ResultOf(LastSourceSub)]
              /\ \A j \in SourceCalls :
                    mapCalls[j].op = IF \A k \in SourceCalls : j <= k THEN "addSource" ELSE "setData"
         /\ Len(mapLayers) = 3
         /\ \A id \in { "search-results-circle", "search-results-symbol", "search-results-label" } :
               /\ Cardinality({ i \in 1..Len(mapLayers) : mapLayers[i] = id }) = 1
               /\ AddLayerCalls(id) = 1

C14_Witness ==
    /\ Len(requests) = 2
    /\ requests[1].state = "applied" /\ requests[1].resp.body.geojson = FoundLine
    /\ requests[2].state = "applied" /\ requests[2].resp.body.geojson = FoundOne
    /\ mapCalls[1] = [op |-> "addSource", sub |-> 2]
    /\ mapCalls[Len(mapCalls)] = [op |-> "setData", sub |-> 1]
    /\ mapSource.data = FoundLine
    /\ mapLayers = <<"search-results-circle", "search-results-symbol", "search-results-label">>

\* the positions in mapCalls from the source call j up to the next source call
CallsOfApplication(j) ==
    { i \in j..Len(mapCalls) : \A k \in SourceCalls : k > j => i < k }

\* the coordinates of the Point features of a feature collection
PointsOf(data) ==
    { data.features[i].geometry.coordinates :
        i \in { n \in 1..Len(data.features) : data.features[n].geometry.type = "Point" } }

\* the smallest box that holds the points
BoxOf(points) ==
    [empty |-> FALSE,
     west |-> CHOOSE x \in { p[1] : p \in points } : \A p \in points : x <= p[1],
     south |-> CHOOSE y \in { p[2] : p \in points } : \A p \in points : y <= p[2],
     east |-> CHOOSE x \in { p[1] : p \in points } : \A p \in points : x >= p[1],
     north |-> CHOOSE y \in { p[2] : p \in points } : \A p \in points : y >= p[2]]

\* the source call j handed over a feature collection
AppliedCollection(j) ==
    IsCoordinateSearch(mapCalls[j].sub)
        \/ requests[CHOOSE r \in RequestsOf(mapCalls[j].sub) : TRUE].state = "applied"

FitCalls == { i \in 1..Len(mapCalls) : mapCalls[i].op = "fitBounds" }

LastSourceCall == CHOOSE j \in SourceCalls : \A k \in SourceCalls : k <= j

\* C15: after the data of a search are applied, fitBounds is called exactly
\* once, with the bounding box of the Point features of the result, and of
\* those only, and padding 200; when the result has no Point feature fitBounds
\* is not called and the viewport stays as it was.
C15_FitToPointFeatures ==
    /\ \A j \in SourceCalls :
          AppliedCollection(j) =>
              LET points == PointsOf(ResultOf(mapCalls[j].sub))
                  fits == CallsOfApplication(j) \cap FitCalls
              IN  IF points = {} THEN fits = {}
                  ELSE /\ Cardinality(fits) = 1
                       /\ \A i \in fits :
                             /\ mapCalls[i].bounds = BoxOf(points)
                             /\ mapCalls[i].padding = 200
                             /\ mapCalls[i].sub = mapCalls[j].sub
    /\ IF FitCalls = {} THEN viewport = NoFit
       ELSE LET last == mapCalls[CHOOSE i \in FitCalls : \A k \in FitCalls : k <= i]
            IN  viewport = [called |-> TRUE, bounds |-> last.bounds, padding |-> last.padding]

C15_Witness ==
    /\ Len(requests) = 2
    /\ requests[1].state = "applied" /\ requests[1].resp.body.geojson = FoundStations
    /\ requests[2].state = "applied" /\ requests[2].resp.body.geojson = FoundLine
    /\ mapSource.data = FoundLine
    /\ Cardinality(FitCalls) = 1
    /\ viewport = [called |-> TRUE, padding |-> 200,
                   bounds |-> [empty |-> FALSE, west |-> 13970060, south |-> 3565858,
                               east |-> 13976712, north |-> 3568124]]

\* the response is a failure: the fetch rejected, the status is not 2xx, the
\* body carries the error flag, or the body has no geojson
IsFailure(resp) ==
    \/ resp.kind # "json"
    \/ resp.status \notin 200..299
    \/ "error" \in DOMAIN resp.body /\ resp.body.error
    \/ "geojson" \notin DOMAIN resp.body

\* request i is answered in this step
Answered(i) ==
    /\ i \in 1..Len(requests)
    /\ requests[i].state = "pending"
    /\ requests'[i].state # "pending"

\* C16: a search that fails (error flag, non-2xx status, body without geojson,
\* rejected fetch) leaves the source data, the layers and the viewport exactly
\* as they were.
C16_FailureLeavesMap ==
    [][\A i \in 1..MaxSubmits :
          Answered(i) /\ IsFailure(requests'[i].resp)
              => UNCHANGED <<mapSource, mapLayers, viewport>>]_vars

\* C20: overlapping searches are last-response-wins: every response that
\* arrives, whatever was submitted or answered in the meantime, is applied to
\* the source and the viewport, so that the source holds the data of the
\* response that arrived last; no request is cancelled or ignored as stale.
C20_LastResponseWins ==
    [][\A i \in 1..MaxSubmits :
          Answered(i) /\ ~IsFailure(requests'[i].resp) =>
              LET data == requests'[i].resp.body.geojson
              IN  /\ mapSource' = [type |-> "geojson", data |-> data]
                  /\ viewport' = IF PointsOf(data) = {} THEN viewport
                                 ELSE [called |-> TRUE, bounds |-> BoxOf(PointsOf(data)),
                                       padding |-> 200]]_vars

\* the second search was submitted while the first was in flight, and the
\* response to the first arrived last
C20_Witness ==
    /\ Len(requests) = 2
    /\ requests[1].state = "applied" /\ requests[1].resp.body.geojson = FoundOne
    /\ requests[2].state = "applied" /\ requests[2].resp.body.geojson = FoundStations
    /\ mapCalls[1] = [op |-> "addSource", sub |-> requests[2].sub]
    /\ mapCalls[LastSourceCall] = [op |-> "setData", sub |-> requests[1].sub]
    /\ mapSource.data = FoundOne
    /\ viewport.bounds = [empty |-> FALSE, west |-> -7704279, south |-> -1204637,
                          east |-> -7704279, north |-> -1204637]

\* the field k of the persisted state, as the application reads it back
StoredView(k) == getCurrentSavedState("ok", geolstate)[k]

\* the two holders of the position
PositionHeld == <<zLatLngString, StoredView("z"), StoredView("lat"), StoredView("lng")>>

SelectionStored == <<StoredView("style"), StoredView("lang")>>

\* this step is a moveend: the map, loaded, reports another centre or zoom
MoveEndStep == phase = "mounted" /\ phase' = "mounted" /\ mapRef /\ camera' # camera

\* the stored lat/lng are the lat/lng of the position string, and of the 'map'
\* key of the fragment once the sync effect has written it
StoredAsInHash ==
    /\ StoredView("lat") = PositionOf(zLatLngString).lat
    /\ StoredView("lng") = PositionOf(zLatLngString).lng
    /\ ~effectPending =>
          LET inHash == PositionOf(ParamsGet(parseHash(fragment), "map").s)
          IN  StoredView("lat") = inHash.lat /\ StoredView("lng") = inHash.lng

\* while the page is up, the position string and the persisted z/lat/lng change
\* in the moveend handler only, and the moveend handler leaves the persisted
\* style and lang alone
OnlyMoveEndMoves ==
    /\ (phase = "mounted" /\ phase' = "mounted" /\ ~MoveEndStep) => PositionHeld' = PositionHeld
    /\ MoveEndStep => SelectionStored' = SelectionStored

PopupsOf(i) == { j \in 1..Len(popups) : popups[j].click = i }

\* the positions in errorLog of the errors click i logged
ErrorsOf(i) == { j \in 1..Len(errorLog) : errorLog[j].click = i }

\* the Overpass request succeeded: the fetch resolved and the body decoded
Succeeded(resp) == resp.kind = "json"

\* the elements of the response, none when the body has no such field
ElementsOf(resp) == IF "elements" \in DOMAIN resp.body THEN resp.body.elements ELSE <<>>

\* the tags of an element as <<key, value>> entries
ElementTags(el) == IF "tags" \in DOMAIN el THEN el.tags ELSE <<>>

NameKeys == <<"name", "name:ja", "name:en", "name:zh">>

\* the entries carry a non-empty value for the key
HasValue(entries, key) == \E i \in 1..Len(entries) : entries[i][1] = key /\ entries[i][2] # ""

ValueOf(entries, key) == entries[CHOOSE i \in 1..Len(entries) : entries[i][1] = key][2]

\* a display name can be derived from the name keys
HasDerivedName(entries) == \E n \in 1..Len(NameKeys) : HasValue(entries, NameKeys[n])

\* the name derived: the value of the first name key, in order, that has one
DerivedName(entries) ==
    ValueOf(entries, NameKeys[CHOOSE n \in 1..Len(NameKeys) :
                                 /\ HasValue(entries, NameKeys[n])
                                 /\ \A m \in 1..(n - 1) : ~HasValue(entries, NameKeys[m])])

\* popup j shows the element el at the point of click i, and nothing else
BuiltFrom(j, el, i) ==
    LET entries == ElementTags(el)
        html == popups[j].html
    IN  /\ popups[j].lngLat = <<clicks[i].lngLat.lng, clicks[i].lngLat.lat>>
        /\ html.title = IF HasDerivedName(entries) THEN DerivedName(entries) ELSE "No Title"
        /\ Len(html.rows) = Len(entries)
        /\ \A r \in 1..Len(entries) : html.rows[r].value = entries[r][2]
        /\ (html.placeholder # "") = (entries = <<>>)

\* C17: for every map click a popup is added if and only if the Overpass
\* request succeeds and its response has at least one element, and then it is
\* built from the first element only; when the response has no elements, or the
\* fetch or the JSON decoding fails, no popup is shown; the failure is caught
\* and logged, and the handler ends without an exception propagating.
C17_PopupIffElement ==
    \A i \in 1..Len(clicks) :
        IF clicks[i].state = "pending"
        THEN PopupsOf(i) = {} /\ ErrorsOf(i) = {}
        ELSE LET resp == clicks[i].resp
             IN  /\ clicks[i].state \in { "popup", "nothing", "caught" }
                 /\ IF Succeeded(resp) /\ Len(ElementsOf(resp)) >= 1
                    THEN /\ Cardinality(PopupsOf(i)) = 1
                         /\ \A j \in PopupsOf(i) : BuiltFrom(j, ElementsOf(resp)[1], i)
                    ELSE PopupsOf(i) = {}
                 /\ Cardinality(ErrorsOf(i)) = IF Succeeded(resp) THEN 0 ELSE 1

C17_Witness ==
    /\ Len(clicks) = 2
    /\ clicks[1].state = "popup" /\ clicks[1].resp.body.elements = <<ShopElement, RoadElement>>
    /\ clicks[2].state = "caught" /\ clicks[2].resp.kind = "rejected"
    /\ Len(popups) = 1 /\ popups[1].html.title = "Lawson" /\ Len(popups[1].html.rows) = 5
    /\ Len(errorLog) = 1 /\ errorLog[1].click = 2

\* the links of popup j with the given text
LinksOf(j, text) ==
    { popups[j].html.links[n].href :
        n \in { m \in 1..Len(popups[j].html.links) : popups[j].html.links[m].text = text } }

\* the tags of the first element of the response popup j was built from
TagsShown(j) == ElementTags(ElementsOf(clicks[popups[j].click].resp)[1])

\* the entries have the key
HasKey(entries, key) == \E i \in 1..Len(entries) : entries[i][1] = key

\* the source-reference, website and Wikipedia links of popup j appear only
\* with their tags
OtherLinksOnlyWithTags(j) ==
    LET entries == TagsShown(j)
    IN  /\ LinksOf(j, "{see the reference}") # {} =>
              /\ HasKey(entries, "source_ref")
              /\ LinksOf(j, "{see the reference}") = { ValueOf(entries, "source_ref") }
        /\ LinksOf(j, "{see the website}") # {} =>
              /\ HasKey(entries, "website")
              /\ LinksOf(j, "{see the website}") = { ValueOf(entries, "website") }
        /\ LinksOf(j, "{see Wikipedia}") # {} =>
              /\ HasDerivedName(entries)
              /\ LinksOf(j, "{see Wikipedia}") = { "https://ja.wikipedia.org/wiki/" \o DerivedName(entries) }

\* C18 as stated: the popup has a link to https://www.wikidata.org/wiki/{value}
\* if and only if the first element carries a 'brand:wikidata' tag with that
\* value; the source-reference and website links appear only when the
\* 'source_ref' and 'website' tags are present, and the Wikipedia link only when
\* a display name was derived from name, name:ja, name:en, name:zh, in that order.
C18_ConditionalLinks ==
    \A j \in 1..Len(popups) :
        /\ LinksOf(j, "{see Wikidata}") =
              IF HasKey(TagsShown(j), "brand:wikidata")
              THEN { "https://www.wikidata.org/wiki/" \o ValueOf(TagsShown(j), "brand:wikidata") }
              ELSE {}
        /\ OtherLinksOnlyWithTags(j)

\* C18 as amended: the Wikidata link appears if and only if the first element
\* carries a 'brand:wikidata' tag with a non-empty value; the rest as stated.
C18_ConditionalLinksNonEmpty ==
    \A j \in 1..Len(popups) :
        /\ LinksOf(j, "{see Wikidata}") =
              IF HasValue(TagsShown(j), "brand:wikidata")
              THEN { "https://www.wikidata.org/wiki/" \o ValueOf(TagsShown(j), "brand:wikidata") }
              ELSE {}
        /\ OtherLinksOnlyWithTags(j)

C18_Witness ==
    /\ Len(popups) = 2
    /\ TagsShown(1) = ShopElement.tags
    /\ popups[1].html.links =
          <<[text |-> "{see Wikidata}", href |-> "https://www.wikidata.org/wiki/Q1557223"],
            [text |-> "{see Wikipedia}", href |-> "https://ja.wikipedia.org/wiki/Lawson"],
            [text |-> "{see the reference}", href |-> "https://example.org/ref"],
            [text |-> "{see the website}", href |-> "https://www.lawson.co.jp/"]>>
    /\ TagsShown(2) = EmptyValuesElement.tags
    /\ popups[2].html.links =
          <<[text |-> "{see Wikipedia}", href |-> "https://ja.wikipedia.org/wiki/Toukyou tawaa"]>>

\* what raises because local storage cannot be read or written
StorageRaises == { "stage", "handleStageChange" }

\* C21: storage errors are never fatal: with local storage unavailable, or a
\* read or a write throwing, reading the saved state and resolving the stage on
\* mount, a style or language change, a moveend and the stage toggle all end
\* without raising; the state is not persisted, and the style and language in
\* memory and the hash are updated all the same.
C21_StorageNeverFatal ==
    /\ raised \cap StorageRaises = {}
    /\ phase = "mounted" =>
          /\ picked.style # JsUndef => style = picked.style
          /\ picked.lang # JsUndef => language = picked.lang
          /\ ~effectPending => ParamsGet(parseHash(fragment), "style") = style

\* the part of C21 that the code does keep: the selections reach the memory and
\* the hash whatever the storage does, and the only render that throws for the
\* storage is the one that reads the stage
C21_SelectionsSurviveStorage ==
    /\ "stage" \in raised => (storageMode = "unavailable" /\ ~HashProvides(fragment, "stage"))
    /\ "handleStageChange" \in raised => storageMode # "ok"
    /\ phase = "mounted" =>
          /\ picked.style # JsUndef => style = picked.style
          /\ picked.lang # JsUndef => language = picked.lang
          /\ ~effectPending => ParamsGet(parseHash(fragment), "style") = style

\* the live map has the style selected
SelectionApplied == (phase = "mounted" /\ mapRef) => mapStyle = styleIdToUrl(style.s, language)

\* C22: every style or language selection is eventually applied to the live
\* map: provided the map eventually reports isStyleLoaded() true and stays so,
\* the map is again and again on the selected style, also when the selection
\* was made while a style was loading; it never stays on another one for ever.
C22_SelectionEventuallyApplied == (<>[]styleLoaded) => []<>SelectionApplied

\* the pairs of the parameter list whose key the application does not manage
Unmanaged(q) == ParamsDelete(ParamsDelete(ParamsDelete(ParamsDelete(q, "style"), "map"), "lang"), "stage")

\* the pairs of the parameter list with the key 'stage'
RECURSIVE StagePairs(_)
StagePairs(q) ==
    IF Len(q) = 0 THEN <<>>
    ELSE (IF q[1][1] = "stage" THEN <<q[1]>> ELSE <<>>) \o StagePairs(Tail(q))

\* C23: hash writes preserve unrelated keys: the sync effect changes only the
\* keys 'style', 'map' and 'lang', the stage toggle only 'stage'; every other
\* key of the fragment keeps its value and its place among the others through
\* style changes, language changes, moveend events and stage toggles.
C23_UnrelatedKeysKept ==
    [][fragment' # fragment =>
          LET before == parseHash(fragment)
              after == parseHash(fragment')
          IN  /\ Unmanaged(after) = Unmanaged(before)
              /\ phase' = "reloading" => ParamsDelete(after, "stage") = ParamsDelete(before, "stage")
              /\ phase' # "reloading" => StagePairs(after) = StagePairs(before)
      ]_vars

C23_Witness ==
    /\ phase = "reloading"
    /\ fragment # "b=2&stage=v1&a=1/x+y&b=3&flag"
    /\ Unmanaged(parseHash(fragment)) = << <<"b", "2">>, <<"a", "1/x y">>, <<"b", "3">>, <<"flag", "">> >>
    /\ ParamsGet(parseHash(fragment), "stage") = JsStr("dev")
    /\ ParamsGet(parseHash(fragment), "style") = JsStr("geolonia/gsi")
    /\ ParamsGet(parseHash(fragment), "lang") = JsStr("en")
    /\ ParamsGet(parseHash(fragment), "map") = JsStr("8/-12.046/-77.043")

\* the page was opened with a 'map' key in the hash and the map has jumped to
\* it.  Under SpecReload a 'map' key is one the sync effect wrote after a
\* moveend of an earlier page, and the item 'geolstate' holds the zoom and the
\* rounded centre which that moveend saved.
RestoredFromHash ==
    /\ phase = "mounted" /\ mapRef /\ zLatLngString = ""
    /\ HashProvides(mountEnv.fragment, "map")

\* C24: position round trip through the hash: the 'map' value written after a
\* moveend at zoom z and centre (lat, lng), read back on the next mount by
\* getDefaultCameraOptions, gives a camera with the zoom z rounded to two
\* decimals and the same rounded centre, as restoring from local storage does.
C24_PositionRoundTrip ==
    RestoredFromHash =>
        LET saved == mountEnv.item.v.f
        IN  /\ camera.zoom = JsNum(RoundTo(saved.z.n, 2))
            /\ camera.lat = saved.lat
            /\ camera.lng = saved.lng

\* what the code does keep: the centre comes back, the zoom comes back rounded up
C24_CentreRoundTrip ==
    RestoredFromHash =>
        LET saved == mountEnv.item.v.f
        IN  /\ camera.zoom = JsNum(Ceil(RoundTo(saved.z.n, 2)) * Unit)
            /\ camera.lat = saved.lat
            /\ camera.lng = saved.lng

=============================================================================
